---- MODULE Spec2Model ----
(***************************************************************************)
(* Model of the swingcoach analysis engine.                                *)
(*                                                                         *)
(*  - the pose pipeline of the backend: _analyze_video_sync reads the      *)
(*    frames of an uploaded video, keeps the valid pose results and hands  *)
(*    them to TennisSwingAnalyzer.analyze_swing;                           *)
(*  - the IMU pipeline of the sensor server: analyze_swing on one event    *)
(*    packet of gyro / accel samples.                                      *)
(*                                                                         *)
(* Gyro magnitudes are whole tenths of a rad/s, accelerations whole tenths  *)
(* of a m/s^2.  Angles are whole degrees.  Python's Optional[float] is a sequence of    *)
(* length 0 (None) or 1 (the value).  Scores are counted in 1/ScoreUnit    *)
(* of a point, so the 0.5 and 0.3 factors of _calculate_score are exact.   *)
(* Python indices are 0-based and are kept 0-based in every result; a      *)
(* sequence s is read at Python index i as s[i + 1].                       *)
(***************************************************************************)
EXTENDS Integers, Sequences, FiniteSets, TLC

VARIABLES
    pc,             \* position of the pose request: "open", "reading", "done"
    frames_read,    \* frames returned by cap.read() so far
    pose_results,   \* the valid pose results kept by _analyze_video_sync
    http_error,     \* detail of the HTTPException raised, "" when none
    result,         \* the SwingAnalysisResult of the analyzer, or NoResult
    response,       \* the AnalysisResponse built from it, or NoResponse
    imu_pc,         \* position of the IMU event: "idle", "received", "done"
    samples,        \* the samples of the event packet in hand
    imu_result,     \* the dict analyze_swing returned for it, or NoResult
    sm,             \* a call of smooth_array: its arguments and its outcome
    analyzer,       \* the fields of the TennisSwingAnalyzer shared by requests
    calls,          \* the analyze_swing calls running on executor threads
    env,            \* os.environ: VISION_PROVIDER and GEMINI_API_KEY
    pose_backend,   \* app.pose_backend: "unset", "available" or "none"
    gemini_client,  \* gemini_service._client is set
    req,            \* the /api/analyze-swing request in progress
    health,         \* the last answer of /health
    files,          \* the temporary files that exist on the backend's disk
    upload,         \* the upload request whose temporary files are followed
    event_count,    \* server.py: the module global event_count
    handlers        \* server.py: the do_POST calls on event packets, per thread

pose_vars == <<pc, frames_read, pose_results, http_error, result, response>>

imu_vars == <<imu_pc, samples, imu_result>>

aux_vars == <<sm, analyzer, calls, env, pose_backend, gemini_client, req, health>>

io_vars == <<files, upload, event_count, handlers>>

vars == <<pose_vars, imu_vars, aux_vars, io_vars>>

----------------------------------------------------------------------------
(* Bounds of the model *)

\* longest video, in decoded frames
MaxVideoFrames == 6

----------------------------------------------------------------------------
(* Python values *)

None == <<>>

Some(v) == <<v>>

\* truth value of an Optional[float] / Optional[int]: None and 0 are falsy
Truthy(x) == x # None /\ x[1] # 0

\* `x or 0`
OrZero(x) == IF Truthy(x) THEN x[1] ELSE 0

Abs(x) == IF x < 0 THEN -x ELSE x

Min(a, b) == IF a <= b THEN a ELSE b

Max(a, b) == IF a >= b THEN a ELSE b

RECURSIVE MaxOfSeq(_)
\* max(...) over a non-empty sequence of integers
MaxOfSeq(s) ==
    IF Len(s) = 1 THEN s[1] ELSE Max(s[1], MaxOfSeq(Tail(s)))

----------------------------------------------------------------------------
(* tennis_analyzer.py *)

SwingPhase ==
    {"ready", "preparation", "backswing", "forward_swing", "contact",
     "follow_through"}

\* IDEAL_RANGES, as <<min, max>>
IDEAL_RANGES ==
    [contact_elbow_angle |-> <<150, 170>>,
     contact_knee_angle  |-> <<140, 160>>,
     torso_rotation      |-> <<45, 90>>]

\* one point of score
ScoreUnit == 20

\* _detect_phase on the angles of one pose (racket side = right)
detect_phase(elbow, shoulder, torso_rotation) ==
    IF elbow = None \/ shoulder = None THEN "ready"
    ELSE IF Truthy(torso_rotation) /\ torso_rotation[1] > 30
         THEN IF shoulder[1] < 60 THEN "backswing"
              ELSE IF shoulder[1] < 120 THEN "forward_swing"
              ELSE "follow_through"
    ELSE IF shoulder[1] > 150 THEN "follow_through"
    ELSE IF shoulder[1] > 90 THEN "contact"
    ELSE "preparation"

\* analyze_frame: the SwingMetrics of one pose result
analyze_frame(pose, frame_index) ==
    [frame_index           |-> frame_index,
     phase                 |-> detect_phase(pose.elbow, pose.shoulder, pose.torso),
     racket_elbow_angle    |-> pose.elbow,
     racket_shoulder_angle |-> pose.shoulder,
     front_knee_angle      |-> pose.knee,
     torso_rotation        |-> pose.torso]

\* phases[phase] = (start, end): a dict assignment
DictSet(d, k, v) ==
    [x \in (DOMAIN d) \cup {k} |-> IF x = k THEN v ELSE d[x]]

EmptyDict == [x \in {} |-> <<0, 0>>]

RECURSIVE BoundaryLoop(_, _, _, _, _)
\* the for loop of _detect_phase_boundaries from Python index i on, and the
\* closing assignment after it
BoundaryLoop(metrics, i, phases, current_phase, phase_start) ==
    IF i = Len(metrics)
    THEN IF current_phase # "none"
         THEN DictSet(phases, current_phase, <<phase_start, Len(metrics) - 1>>)
         ELSE phases
    ELSE IF metrics[i + 1].phase # current_phase
         THEN BoundaryLoop(metrics, i + 1,
                  IF current_phase # "none"
                  THEN DictSet(phases, current_phase, <<phase_start, i - 1>>)
                  ELSE phases,
                  metrics[i + 1].phase, i)
         ELSE BoundaryLoop(metrics, i + 1, phases, current_phase, phase_start)

\* _detect_phase_boundaries taking the first and the last frame of each phase
detect_phase_boundaries_spanning(metrics) ==
    LET at(p) == {i \in 0..(Len(metrics) - 1) : metrics[i + 1].phase = p}
        lowest(S) == CHOOSE i \in S : \A j \in S : i <= j
        highest(S) == CHOOSE i \in S : \A j \in S : i >= j
    IN  [p \in {metrics[i].phase : i \in 1..Len(metrics)} |->
            <<lowest(at(p)), highest(at(p))>>]

detect_phase_boundaries(metrics) ==
    BoundaryLoop(metrics, 0, EmptyDict, "none", 0)

\* _find_contact_frame: Optional[int]
find_contact_frame(metrics, phases) ==
    IF "contact" \in DOMAIN phases
    THEN Some((phases["contact"][1] + phases["contact"][2]) \div 2)
    ELSE None

\* max((m.torso_rotation or 0) for m in metrics), metrics non-empty
max_rotation_of(metrics) ==
    MaxOfSeq([i \in 1..Len(metrics) |-> OrZero(metrics[i].torso_rotation)])

\* the elbow check of _analyze_issues: <<issues, recommendations>> it appends
elbow_issue(contact) ==
    IF Truthy(contact.racket_elbow_angle)
    THEN IF contact.racket_elbow_angle[1] < 140
         THEN << <<"Elbow too bent at contact">>,
                 <<"Extend your arm more through contact">> >>
         ELSE IF contact.racket_elbow_angle[1] > 175
         THEN << <<"Arm too straight at contact">>,
                 <<"Keep a slight bend in your elbow">> >>
         ELSE << <<>>, <<>> >>
    ELSE << <<>>, <<>> >>

\* knee_issue with the recommendation forgotten
knee_issue_unpaired(contact) ==
    IF Truthy(contact.front_knee_angle) /\ contact.front_knee_angle[1] > 170
    THEN << <<"Not enough knee bend">>, <<>> >>
    ELSE << <<>>, <<>> >>

\* the knee check of _analyze_issues
knee_issue(contact) ==
    IF Truthy(contact.front_knee_angle) /\ contact.front_knee_angle[1] > 170
    THEN << <<"Not enough knee bend">>,
            <<"Bend your knees more to generate power from the ground up">> >>
    ELSE << <<>>, <<>> >>

\* the torso check of _analyze_issues
torso_issue(metrics) ==
    IF max_rotation_of(metrics) < 30
    THEN << <<"Insufficient torso rotation">>,
            <<"Rotate your shoulders more during the backswing">> >>
    ELSE << <<>>, <<>> >>

\* _analyze_issues: <<issues, recommendations>>
analyze_issues(metrics, phases) ==
    LET contact_idx == find_contact_frame(metrics, phases)
        e == IF Truthy(contact_idx)
             THEN elbow_issue(metrics[contact_idx[1] + 1])
             ELSE << <<>>, <<>> >>
        k == IF Truthy(contact_idx)
             THEN knee_issue(metrics[contact_idx[1] + 1])
             ELSE << <<>>, <<>> >>
        t == torso_issue(metrics)
    IN  << e[1] \o k[1] \o t[1], e[2] \o k[2] \o t[2] >>

\* points of a contact angle (elbow or knee) with budget 15, in score units
contact_points(angle, range) ==
    IF range[1] <= angle /\ angle <= range[2]
    THEN 15 * ScoreUnit
    ELSE LET deviation == Min(Abs(angle - range[1]), Abs(angle - range[2]))
         IN  Max(0, 15 * ScoreUnit - deviation * (ScoreUnit \div 2))

\* the elbow block of _calculate_score
elbow_points(contact) ==
    IF Truthy(contact.racket_elbow_angle)
    THEN contact_points(contact.racket_elbow_angle[1],
                        IDEAL_RANGES.contact_elbow_angle)
    ELSE 0

\* the knee block of _calculate_score
knee_points(contact) ==
    IF Truthy(contact.front_knee_angle)
    THEN contact_points(contact.front_knee_angle[1],
                        IDEAL_RANGES.contact_knee_angle)
    ELSE 0

\* torso_points without the floor at 0
torso_points_unfloored(max_rotation) ==
    LET ideal_min == IDEAL_RANGES.torso_rotation[1]
        ideal_max == IDEAL_RANGES.torso_rotation[2]
    IN  IF ideal_min <= max_rotation /\ max_rotation <= ideal_max
        THEN 20 * ScoreUnit
        ELSE 20 * ScoreUnit
             - Abs(2 * max_rotation - (ideal_min + ideal_max))
               * ((3 * ScoreUnit) \div 20)

\* the torso block of _calculate_score: |r - (min + max) / 2| * 0.3 is
\* |2 r - (min + max)| * 3 / 20
torso_points(max_rotation) ==
    LET ideal_min == IDEAL_RANGES.torso_rotation[1]
        ideal_max == IDEAL_RANGES.torso_rotation[2]
    IN  IF ideal_min <= max_rotation /\ max_rotation <= ideal_max
        THEN 20 * ScoreUnit
        ELSE Max(0, 20 * ScoreUnit
                    - Abs(2 * max_rotation - (ideal_min + ideal_max))
                      * ((3 * ScoreUnit) \div 20))

\* _calculate_score, in score units
calculate_score(metrics, phases) ==
    LET contact_idx == find_contact_frame(metrics, phases)
        score == 50 * ScoreUnit
                 + (IF Truthy(contact_idx)
                    THEN elbow_points(metrics[contact_idx[1] + 1])
                         + knee_points(metrics[contact_idx[1] + 1])
                    ELSE 0)
                 + torso_points(max_rotation_of(metrics))
    IN  Min(100 * ScoreUnit, Max(0, score))

\* _calculate_follow_through: the percentage as the fraction num / den;
\* (follow_frames / (total_frames * 0.2)) * 100 = 500 follow_frames / total_frames
calculate_follow_through(metrics, phases) ==
    IF "follow_through" \notin DOMAIN phases
    THEN [num |-> 0, den |-> 1]
    ELSE LET follow_frames == phases["follow_through"][2]
                              - phases["follow_through"][1] + 1
             total_frames == Len(metrics)
         IN  [num |-> Min(100 * total_frames, 500 * follow_frames),
              den |-> total_frames]

\* analyze_swing of TennisSwingAnalyzer once the metrics of every frame of a
\* non-empty list of pose results are in metrics_per_frame
swing_result(metrics_per_frame) ==
    LET phases == detect_phase_boundaries(metrics_per_frame)
        contact_idx == find_contact_frame(metrics_per_frame, phases)
        contact_metrics == IF Truthy(contact_idx)
                           THEN metrics_per_frame[contact_idx[1] + 1]
                           ELSE metrics_per_frame[(Len(metrics_per_frame) \div 2) + 1]
        found == analyze_issues(metrics_per_frame, phases)
    IN  [total_frames              |-> Len(metrics_per_frame),
         phases                    |-> phases,
         metrics_per_frame         |-> metrics_per_frame,
         max_torso_rotation        |-> max_rotation_of(metrics_per_frame),
         contact_elbow_angle       |-> OrZero(contact_metrics.racket_elbow_angle),
         contact_knee_angle        |-> OrZero(contact_metrics.front_knee_angle),
         follow_through_completion |-> calculate_follow_through(metrics_per_frame, phases),
         issues                    |-> found[1],
         recommendations           |-> found[2],
         overall_score             |-> calculate_score(metrics_per_frame, phases)]

\* analyze_swing: the metrics of every frame, then the analysis of the series
analyze_swing(poses) ==
    swing_result([i \in 1..Len(poses) |-> analyze_frame(poses[i], i - 1)])

----------------------------------------------------------------------------
(* app.py: _analyze_video_sync *)

NoResult == [kind |-> "none"]

NoResponse == [kind |-> "none"]

\* the angles AngleCalculator.calculate_all_angles reports for a pose and the
\* rotation _calculate_torso_rotation reports for it
Pose(elbow, shoulder, knee, torso) ==
    [elbow |-> elbow, shoulder |-> shoulder, knee |-> knee, torso |-> torso]

\* no angle could be computed: classified READY
UndefinedPose == Pose(None, None, None, None)

\* everything in its ideal range, little rotation: classified CONTACT
IdealContactPose == Pose(Some(160), Some(100), Some(150), Some(20))

\* a bent arm and a straight knee, no rotation: classified CONTACT
BadContactPose == Pose(Some(130), Some(120), Some(175), Some(0))

\* everything in its ideal range, rotated: classified FORWARD_SWING
IdealForwardPose == Pose(Some(160), Some(100), Some(150), Some(60))

\* everything in its ideal range, arm raised: classified FOLLOW_THROUGH
IdealFollowPose == Pose(Some(165), Some(160), Some(145), Some(50))

\* the valid pose results the backend may return for a frame
PoseFrames ==
    {UndefinedPose, IdealContactPose, BadContactPose, IdealForwardPose,
     IdealFollowPose}

DetailNotOpened == "Could not open video file"

DetailTooFewFrames ==
    "Could not detect pose in enough frames. Please ensure the full body is visible."

\* the index of the pose whose angles become contact_angles / contact_posture:
\* the first frame classified contact, else the middle frame
contact_angles_index(metrics) ==
    IF \E i \in 1..Len(metrics) : metrics[i].phase = "contact"
    THEN (CHOOSE i \in 1..Len(metrics) :
              /\ metrics[i].phase = "contact"
              /\ \A j \in 1..(i - 1) : metrics[j].phase # "contact") - 1
    ELSE Len(metrics) \div 2

\* the AnalysisResponse built from the analyzer's result
build_response(poses, r) ==
    [kind                      |-> "AnalysisResponse",
     total_frames              |-> r.total_frames,
     overall_score             |-> r.overall_score,
     max_torso_rotation        |-> r.max_torso_rotation,
     contact_elbow_angle       |-> r.contact_elbow_angle,
     contact_knee_angle        |-> r.contact_knee_angle,
     follow_through_completion |-> r.follow_through_completion,
     issues                    |-> r.issues,
     recommendations           |-> r.recommendations,
     feedback_text             |->
         IF r.issues # <<>>
         THEN <<r.issues[1],
                IF r.recommendations # <<>> THEN r.recommendations[1] ELSE "">>
         ELSE <<"Great swing! Keep up the good work.">>,
     contact_angles            |-> poses[contact_angles_index(r.metrics_per_frame) + 1],
     frames                    |-> [i \in 1..Len(poses) |->
                                       [frame_index |-> r.metrics_per_frame[i].frame_index,
                                        phase |-> r.metrics_per_frame[i].phase]]]

\* too_few_frames with the floor one frame lower
too_few_frames_below_four(poses) == Len(poses) < 4

\* no event packet is in hand
ImuIdle ==
    /\ imu_pc = "idle"
    /\ samples = <<>>
    /\ imu_result = [kind |-> "none"]

\* TennisSwingAnalyzer(handedness='right'), as startup creates it
TheAnalyzer ==
    [handedness |-> "right", racket_side |-> "right", support_side |-> "left"]

\* os.environ with neither variable set
EnvUnset == [VISION_PROVIDER |-> None, GEMINI_API_KEY |-> None]

\* nothing else is going on: no smooth_array call, no concurrent analyzer
\* calls, no /api/analyze-swing request, no /health answer
AuxIdle ==
    /\ sm = [pc |-> "idle"]
    /\ analyzer = TheAnalyzer
    /\ calls = <<>>
    /\ env = EnvUnset
    /\ pose_backend = "unset"
    /\ gemini_client = FALSE
    /\ req = [pc |-> "idle", tts_pc |-> "none"]
    /\ health = [kind |-> "none"]

\* no temporary file, no upload followed, no event packet handled yet
IoIdle ==
    /\ files = {}
    /\ upload = [pc |-> "idle"]
    /\ event_count = 0
    /\ handlers = <<>>

\* the frame floor of _analyze_video_sync
too_few_frames(poses) == Len(poses) < 5

\* cap.isOpened() is false: HTTPException(400)
OpenFails ==
    /\ pc = "open"
    /\ pc' = "done"
    /\ http_error' = DetailNotOpened
    /\ UNCHANGED <<frames_read, pose_results, result, response>>
    /\ UNCHANGED <<imu_vars, aux_vars, io_vars>>

\* cap.isOpened() is true: the read loop starts
OpenVideo ==
    /\ pc = "open"
    /\ pc' = "reading"
    /\ UNCHANGED <<frames_read, pose_results, http_error, result, response>>
    /\ UNCHANGED <<imu_vars, aux_vars, io_vars>>

\* cap.read() returns a frame whose pose result is valid: it is appended
KeepFrame(pose) ==
    /\ pc = "reading"
    /\ frames_read < MaxVideoFrames
    /\ frames_read' = frames_read + 1
    /\ pose_results' = Append(pose_results, pose)
    /\ UNCHANGED <<pc, http_error, result, response>>
    /\ UNCHANGED <<imu_vars, aux_vars, io_vars>>

\* cap.read() returns a frame with no pose result or an invalid one: skipped
DropFrame ==
    /\ pc = "reading"
    /\ frames_read < MaxVideoFrames
    /\ frames_read' = frames_read + 1
    /\ UNCHANGED <<pc, pose_results, http_error, result, response>>
    /\ UNCHANGED <<imu_vars, aux_vars, io_vars>>

\* cap.read() returns no frame: the floor check, the analysis, the response
EndOfVideo ==
    /\ pc = "reading"
    /\ pc' = "done"
    /\ IF too_few_frames(pose_results)
       THEN /\ http_error' = DetailTooFewFrames
            /\ UNCHANGED <<result, response>>
       ELSE /\ result' = [kind |-> "SwingAnalysisResult"] @@ analyze_swing(pose_results)
            /\ response' = build_response(pose_results, analyze_swing(pose_results))
            /\ UNCHANGED http_error
    /\ UNCHANGED <<frames_read, pose_results>>
    /\ UNCHANGED <<imu_vars, aux_vars, io_vars>>

Init ==
    /\ pc = "open"
    /\ frames_read = 0
    /\ pose_results = <<>>
    /\ http_error = ""
    /\ result = NoResult
    /\ response = NoResponse
    /\ ImuIdle
    /\ IoIdle
    /\ AuxIdle

Next ==
    \/ OpenFails
    \/ OpenVideo
    \/ \E pose \in PoseFrames : KeepFrame(pose)
    \/ DropFrame
    \/ EndOfVideo

Spec == Init /\ [][Next]_vars

----------------------------------------------------------------------------
(* Properties of the pose pipeline *)

\* the request ended with a SwingAnalysisResult
Analyzed == pc = "done" /\ result # NoResult

\* the frames of the analyzed series classified `phase`, as Python indices
FramesOfPhase(phase) ==
    {i \in 0..(result.total_frames - 1) : result.metrics_per_frame[i + 1].phase = phase}

\* the entries of the phase mapping whose interval holds frame index i
IntervalsHolding(i) ==
    {p \in DOMAIN result.phases : result.phases[p][1] <= i /\ i <= result.phases[p][2]}

\* C1: the phase -> (start, end) mapping returned by analyze_swing is a partition
\* of the frame indices 0..N-1: every index lies in exactly one interval, and
\* every interval ends at N-1 or right before the start of another interval.
C1_PhasesPartitionFrames ==
    Analyzed =>
        /\ \A i \in 0..(result.total_frames - 1) : Cardinality(IntervalsHolding(i)) = 1
        /\ \A p \in DOMAIN result.phases :
               \/ result.phases[p][2] = result.total_frames - 1
               \/ \E q \in DOMAIN result.phases :
                      result.phases[q][1] = result.phases[p][2] + 1

\* the score _calculate_score gives when frame c is its contact frame
ScoreAtFrame(metrics, c) ==
    Min(100 * ScoreUnit,
        50 * ScoreUnit + elbow_points(metrics[c + 1]) + knee_points(metrics[c + 1])
        + torso_points(max_rotation_of(metrics)))

\* the issues _analyze_issues finds when frame c is its contact frame
IssuesAtFrame(metrics, c) ==
    elbow_issue(metrics[c + 1])[1] \o knee_issue(metrics[c + 1])[1]
    \o torso_issue(metrics)[1]

\* C3: when the phase mapping has a CONTACT interval (s, e), the headline
\* contact angles, the score and the issues are those of frame (s + e) \div 2;
\* without a CONTACT interval the headline angles are those of frame N \div 2.
C3_ContactFrameIsMidpoint ==
    Analyzed =>
        LET m == result.metrics_per_frame
        IN  IF "contact" \in DOMAIN result.phases
            THEN LET c == (result.phases["contact"][1] + result.phases["contact"][2]) \div 2
                 IN  /\ result.contact_elbow_angle = OrZero(m[c + 1].racket_elbow_angle)
                     /\ result.contact_knee_angle = OrZero(m[c + 1].front_knee_angle)
                     /\ result.overall_score = ScoreAtFrame(m, c)
                     /\ result.issues = IssuesAtFrame(m, c)
            ELSE LET c == Len(m) \div 2
                 IN  /\ result.contact_elbow_angle = OrZero(m[c + 1].racket_elbow_angle)
                     /\ result.contact_knee_angle = OrZero(m[c + 1].front_knee_angle)

\* x is defined and lies in the range <<min, max>>
InRange(x, range) == x # None /\ range[1] <= x[1] /\ x[1] <= range[2]

\* every frame of the analyzed series has its elbow and knee angle in the ideal
\* range, and the largest torso rotation is in its ideal range
AllFramesIdeal ==
    /\ \A i \in 1..result.total_frames :
           /\ InRange(result.metrics_per_frame[i].racket_elbow_angle,
                      IDEAL_RANGES.contact_elbow_angle)
           /\ InRange(result.metrics_per_frame[i].front_knee_angle,
                      IDEAL_RANGES.contact_knee_angle)
    /\ InRange(Some(result.max_torso_rotation), IDEAL_RANGES.torso_rotation)

\* C4: a series of at least 5 frames whose elbow, knee and largest torso
\* rotation are all ideal scores at least 80 and has no issue, whatever the
\* phases of its frames.
C4_IdealSeriesScoresEighty ==
    (Analyzed /\ result.total_frames >= 5 /\ AllFramesIdeal) =>
        /\ result.overall_score >= 80 * ScoreUnit
        /\ result.issues = <<>>

\* C7: follow_through_completion is min(100, 100 F / (0.2 N)) with F the number
\* of frames classified FOLLOW_THROUGH and N the number of frames; it lies in
\* [0, 100] and is 0 exactly when no frame is classified FOLLOW_THROUGH.
C7_FollowThroughCompletion ==
    Analyzed =>
        LET F == Cardinality(FramesOfPhase("follow_through"))
            N == result.total_frames
            c == result.follow_through_completion
        IN  /\ c.num * N = Min(100 * N, 500 * F) * c.den
            /\ 0 <= c.num /\ c.num <= 100 * c.den
            /\ (c.num = 0) <=> (F = 0)

\* C8: a series of fewer than 5 valid frames is never analyzed: once the video
\* has been read the request ends with the too-few-frames error, and neither a
\* SwingAnalysisResult nor a response exists; a result exists only for a series
\* of at least 5 frames and without an error.
C8_ShortSeriesRejected ==
    /\ (pc = "done" /\ http_error # DetailNotOpened /\ Len(pose_results) < 5) =>
           /\ http_error = DetailTooFewFrames
           /\ result = NoResult
           /\ response = NoResponse
    /\ (result # NoResult \/ response # NoResponse) =>
           /\ Len(pose_results) >= 5
           /\ http_error = ""

\* a video of five decoded frames, one of them without a valid pose, was rejected
C8_Witness ==
    /\ pc = "done"
    /\ frames_read = 5
    /\ Len(pose_results) = 4
    /\ http_error = DetailTooFewFrames

----------------------------------------------------------------------------
(* The scoring functions on a grid of angles: a five-frame series in which
   one probe frame carries the elbow, knee and shoulder angle and one other
   frame carries the torso rotation *)

OptionalOf(values) == {None} \cup {Some(v) : v \in values}

ElbowGrid == OptionalOf({0, 119, 120, 121, 139, 140, 149, 150, 160, 170, 171, 175, 176, 180})

KneeGrid == OptionalOf({0, 109, 110, 111, 139, 140, 150, 160, 161, 170, 171, 180})

TorsoGrid == OptionalOf({0, 1, 29, 30, 43, 44, 45, 60, 90, 91, 134, 135, 180})

\* shoulder angles of the probe: classified CONTACT and FOLLOW_THROUGH
ShoulderGrid == {Some(100), Some(160)}

ProbeSeries(elbow, knee, shoulder, torso, first) ==
    IF first
    THEN <<Pose(elbow, shoulder, knee, None), UndefinedPose,
           Pose(None, None, None, torso), UndefinedPose, UndefinedPose>>
    ELSE <<UndefinedPose, Pose(elbow, shoulder, knee, None), UndefinedPose,
           Pose(None, None, None, torso), UndefinedPose>>

ScoreSeries ==
    {ProbeSeries(e, k, s, t, first) :
        e \in ElbowGrid, k \in KneeGrid, s \in ShoulderGrid, t \in TorsoGrid,
        first \in BOOLEAN}

\* the read loop has kept the five poses of one series
InitScore ==
    /\ pc = "reading"
    /\ frames_read = 5
    /\ pose_results \in ScoreSeries
    /\ http_error = ""
    /\ result = NoResult
    /\ response = NoResponse
    /\ ImuIdle
    /\ IoIdle
    /\ AuxIdle

NextScore == EndOfVideo

SpecScore == InitScore /\ [][NextScore]_vars

\* elbow, knee and torso rotation are undefined in every frame
AllUndefined ==
    \A i \in 1..result.total_frames :
        /\ result.metrics_per_frame[i].racket_elbow_angle = None
        /\ result.metrics_per_frame[i].front_knee_angle = None
        /\ result.metrics_per_frame[i].torso_rotation = None

\* C2: overall_score lies in [0, 100], and is exactly the base score 50 when
\* elbow, knee and torso rotation are undefined in every frame.
C2_ScoreBounded ==
    Analyzed =>
        /\ 0 <= result.overall_score
        /\ result.overall_score <= 100 * ScoreUnit
        /\ AllUndefined => result.overall_score = 50 * ScoreUnit

\* a series with nothing defined was scored 50
C2_Witness ==
    Analyzed /\ AllUndefined /\ result.overall_score = 50 * ScoreUnit

\* distance of v from the nearest edge of the range, 0 inside it
EdgeDistance(v, range) ==
    IF v < range[1] THEN range[1] - v
    ELSE IF v > range[2] THEN v - range[2]
    ELSE 0

\* the angles the credit of a value is compared with
DegreeGrid == 0..180

\* points[v] is the full budget inside the range and outside it a credit that
\* decays from the budget in proportion to the distance from the nearest edge,
\* until it reaches 0 and stays there: the loss budget - points is proportional
\* to the distance, whatever the slope
DecaysFromEdge(points, awarded, budget, range, v) ==
    IF EdgeDistance(v, range) = 0
    THEN awarded = budget
    ELSE /\ 0 <= awarded /\ awarded <= budget
         /\ \A w \in DegreeGrid :
                EdgeDistance(w, range) > 0 =>
                    /\ (awarded > 0 /\ points[w] > 0) =>
                           (budget - awarded) * EdgeDistance(w, range)
                           = (budget - points[w]) * EdgeDistance(v, range)
                    /\ (awarded = 0 /\ EdgeDistance(w, range) >= EdgeDistance(v, range)) =>
                           points[w] = 0

\* the credit of every angle of the grid, per metric
ElbowCredit == [v \in DegreeGrid |-> contact_points(v, IDEAL_RANGES.contact_elbow_angle)]

KneeCredit == [v \in DegreeGrid |-> contact_points(v, IDEAL_RANGES.contact_knee_angle)]

TorsoCredit == [v \in DegreeGrid |-> torso_points(v)]

\* C5: each scored metric earns its full budget inside its ideal range and
\* otherwise a partial credit decaying linearly with the distance from the
\* nearest edge of the range, floored at 0.
C5_CreditDecaysFromEdge ==
    Analyzed =>
        LET m == result.metrics_per_frame
            contact_idx == find_contact_frame(m, result.phases)
        IN  /\ DecaysFromEdge(TorsoCredit, torso_points(result.max_torso_rotation),
                              20 * ScoreUnit, IDEAL_RANGES.torso_rotation,
                              result.max_torso_rotation)
            /\ Truthy(contact_idx) =>
                   LET contact == m[contact_idx[1] + 1]
                   IN  /\ contact.racket_elbow_angle # None =>
                              DecaysFromEdge(ElbowCredit, elbow_points(contact),
                                  15 * ScoreUnit, IDEAL_RANGES.contact_elbow_angle,
                                  contact.racket_elbow_angle[1])
                       /\ contact.front_knee_angle # None =>
                              DecaysFromEdge(KneeCredit, knee_points(contact),
                                  15 * ScoreUnit, IDEAL_RANGES.contact_knee_angle,
                                  contact.front_knee_angle[1])

\* the check of _analyze_issues an issue string belongs to: 1 elbow, 2 knee,
\* 3 torso rotation
CheckOf(issue) ==
    IF issue \in {"Elbow too bent at contact", "Arm too straight at contact"} THEN 1
    ELSE IF issue = "Not enough knee bend" THEN 2
    ELSE IF issue = "Insufficient torso rotation" THEN 3
    ELSE 0

\* the recommendation appended together with an issue
RecommendationOf(issue) ==
    IF issue = "Elbow too bent at contact" THEN "Extend your arm more through contact"
    ELSE IF issue = "Arm too straight at contact" THEN "Keep a slight bend in your elbow"
    ELSE IF issue = "Not enough knee bend"
         THEN "Bend your knees more to generate power from the ground up"
    ELSE IF issue = "Insufficient torso rotation"
         THEN "Rotate your shoulders more during the backswing"
    ELSE ""

\* C6: issues and recommendations have equal length, recommendations[i] is the
\* one of the check that produced issues[i], and the checks appear in the order
\* elbow, knee, torso rotation with at most one entry each.
C6_IssuesPairedInOrder ==
    Analyzed =>
        /\ Len(result.issues) = Len(result.recommendations)
        /\ \A i \in 1..Len(result.issues) :
               /\ CheckOf(result.issues[i]) \in 1..3
               /\ i <= Len(result.recommendations)
               /\ result.recommendations[i] = RecommendationOf(result.issues[i])
        /\ \A i, j \in 1..Len(result.issues) :
               i < j => CheckOf(result.issues[i]) < CheckOf(result.issues[j])

\* all three checks fired
C6_Witness ==
    /\ Analyzed
    /\ result.issues = <<"Arm too straight at contact", "Not enough knee bend",
                         "Insufficient torso rotation">>

----------------------------------------------------------------------------
(* swing_analyzer.py: analyze_swing on the samples of one IMU event packet *)

\* longest event packet, in samples
MaxSamples == 15

\* samples of a packet that vary freely; the others stay at one base level
WindowLen == 3

\* MIN_PEAK_GYRO_RAD, in tenths of a rad/s
MIN_PEAK_GYRO_RAD == 50

\* SAMPLE_RATE_HZ
SAMPLE_RATE_HZ == 400

\* the sample floor of analyze_swing
MinSamples == 10

\* the sample floor of _smooth
SmoothMinLen == 15

\* np.linalg.norm of a 3-vector whose norm is a whole number
\* (it lies between the largest component and the sum of the components)
Norm(v) ==
    LET a == Abs(v[1])
        b == Abs(v[2])
        c == Abs(v[3])
    IN  CHOOSE r \in Max(a, Max(b, c))..(a + b + c) :
            r * r = a * a + b * b + c * c

\* _extract_arrays and the magnitudes: t, |gyro| and |accel| of every sample
timestamps(pkt) == [i \in 1..Len(pkt) |-> pkt[i].t]

gyro_mag_raw_of(pkt) == <<>> \o [i \in 1..Len(pkt) |-> Norm(pkt[i].gyro)]

accel_mag_raw_of(pkt) == <<>> \o [i \in 1..Len(pkt) |-> Norm(pkt[i].accel)]

smooth_dropping_last(signal, filtered) ==
    IF Len(signal) < SmoothMinLen THEN SubSeq(signal, 1, Len(signal) - 1)
    ELSE filtered

\* _smooth: the copy of a short signal, else what sosfiltfilt returned for it
smooth(signal, filtered) ==
    IF Len(signal) < SmoothMinLen THEN signal ELSE filtered

\* scipy's _local_maxima_1d: the Python indices of the local maxima of x, a
\* plateau counting once, at its middle; the first and last sample never count
local_maxima(x) ==
    {(l + r) \div 2 : <<l, r>> \in
        {lr \in (1..(Len(x) - 2)) \X (1..(Len(x) - 2)) :
            /\ lr[1] <= lr[2]
            /\ \A i \in lr[1]..lr[2] : x[i + 1] = x[lr[1] + 1]
            /\ x[lr[1]] < x[lr[1] + 1]
            /\ x[lr[2] + 2] < x[lr[1] + 1]}}

\* of the candidates the one processed first by scipy's _select_by_peak_distance:
\* the highest, and of equally high ones the latest
first_by_priority(x, cands) ==
    CHOOSE j \in cands :
        \A k \in cands : x[k + 1] < x[j + 1] \/ (x[k + 1] = x[j + 1] /\ k <= j)

RECURSIVE select_by_distance(_, _, _, _)
\* scipy's _select_by_peak_distance: peaks are kept from the highest down, each
\* removing the peaks closer than `distance` samples to it
select_by_distance(x, cands, distance, kept) ==
    IF cands = {} THEN kept
    ELSE LET j == first_by_priority(x, cands)
         IN  select_by_distance(x,
                 {k \in cands : Abs(k - j) >= distance}, distance, kept \cup {j})

\* scipy's _peak_prominences: the peak's height above the higher of the lowest
\* points between it and the next higher sample (or the signal's end) on each side
prominence(x, peak) ==
    LET n == Len(x)
        left == {i \in 0..peak : \A j \in i..peak : x[j + 1] <= x[peak + 1]}
        right == {i \in peak..(n - 1) : \A j \in peak..i : x[j + 1] <= x[peak + 1]}
        left_min == CHOOSE v \in {x[i + 1] : i \in left} :
                        \A i \in left : v <= x[i + 1]
        right_min == CHOOSE v \in {x[i + 1] : i \in right} :
                         \A i \in right : v <= x[i + 1]
    IN  x[peak + 1] - Max(left_min, right_min)

\* the height floor of find_peaks
high_enough_unfloored(x, peak) == x[peak + 1] >= 0

high_enough(x, peak) == x[peak + 1] >= MIN_PEAK_GYRO_RAD

\* scipy's find_peaks(x, height, prominence, distance): the conditions are
\* applied in the order height, distance, prominence (MIN_PEAK_GYRO_RAD * 0.3)
find_peaks(x) ==
    LET tall == {p \in local_maxima(x) : high_enough(x, p)}
        apart == select_by_distance(x, tall, (SAMPLE_RATE_HZ * 5) \div 100, {})
    IN  {p \in apart : 10 * prominence(x, p) >= 3 * MIN_PEAK_GYRO_RAD}

tallest_peak_latest(x, peaks) ==
    CHOOSE p \in peaks :
        \A q \in peaks : x[q + 1] < x[p + 1] \/ (x[q + 1] = x[p + 1] /\ q <= p)

\* peaks[np.argmax(props["peak_heights"])]: the first of the highest peaks
tallest_peak(x, peaks) ==
    CHOOSE p \in peaks :
        \A q \in peaks : x[q + 1] < x[p + 1] \/ (x[q + 1] = x[p + 1] /\ p <= q)

below_half_peak(x, i, peak_val) == 2 * x[i + 1] < peak_val

\* gyro_mag_smooth[i] < accel_thresh, accel_thresh being peak_val * 0.10
below_thresh(x, i, peak_val) == 10 * x[i + 1] < peak_val

\* a walk that starts at the peak and stops at the first sample not above it
walk_left_from_peak(x, i, peak_val) ==
    IF x[i + 2] <= peak_val THEN i + 1 ELSE 0

RECURSIVE walk_left(_, _, _)
\* the walk left of the peak: the first index from i down to 0 that is below
\* the threshold, else 0
walk_left(x, i, peak_val) ==
    IF i < 0 THEN 0
    ELSE IF below_thresh(x, i, peak_val) THEN i
    ELSE walk_left(x, i - 1, peak_val)

RECURSIVE walk_right(_, _, _)
\* the walk right of the peak: the first index from i up to the last that is
\* below the threshold, else the last index
walk_right(x, i, peak_val) ==
    IF i >= Len(x) THEN Len(x) - 1
    ELSE IF below_thresh(x, i, peak_val) THEN i
    ELSE walk_right(x, i + 1, peak_val)

\* _find_phase_boundaries: None, or the boundary indices and times.  The
\* derivative it computes first is not used by anything after it.
find_phase_boundaries(t_ms, gyro_mag_smooth) ==
    LET peaks == find_peaks(gyro_mag_smooth)
    IN  IF peaks = {} THEN None
        ELSE LET best == tallest_peak(gyro_mag_smooth, peaks)
                 peak_val == gyro_mag_smooth[best + 1]
                 accel_start_idx == walk_left(gyro_mag_smooth, best - 1, peak_val)
                 decel_end_idx == walk_right(gyro_mag_smooth, best + 1, peak_val)
             IN  Some([accel_start_idx |-> accel_start_idx,
                       peak_idx        |-> best,
                       decel_end_idx   |-> decel_end_idx,
                       accel_start_ms  |-> t_ms[accel_start_idx + 1],
                       peak_ms         |-> t_ms[best + 1],
                       decel_end_ms    |-> t_ms[decel_end_idx + 1]])

\* analyze_swing on a packet; filtered_gyro and filtered_accel are what
\* sosfiltfilt returns for the two magnitude signals
imu_analyze_swing(pkt, filtered_gyro, filtered_accel) ==
    IF Len(pkt) = 0 \/ Len(pkt) < MinSamples
    THEN [error |-> "not enough samples", phases |-> None]
    ELSE LET t == timestamps(pkt)
             gyro_mag_raw == gyro_mag_raw_of(pkt)
             gyro_mag == smooth(gyro_mag_raw, filtered_gyro)
             accel_mag == smooth(accel_mag_raw_of(pkt), filtered_accel)
             boundaries == find_phase_boundaries(t, gyro_mag)
         IN  IF boundaries = None
             THEN [error           |-> "no swing detected (gyro peak below threshold)",
                   phases          |-> None,
                   peak_gyro_rad_s |-> MaxOfSeq(gyro_mag),
                   t_ms            |-> t,
                   gyro_mag        |-> gyro_mag,
                   accel_mag       |-> accel_mag,
                   raw_gyro_mag    |-> gyro_mag_raw]
             ELSE LET b == boundaries[1]
                  IN  [phases |-> Some(
                           [preparation    |-> [start_ms |-> t[1],
                                                end_ms   |-> b.accel_start_ms],
                            acceleration   |-> [start_ms |-> b.accel_start_ms,
                                                end_ms   |-> b.peak_ms],
                            peak           |-> [t_ms           |-> b.peak_ms,
                                                gyro_mag_rad_s |-> gyro_mag[b.peak_idx + 1],
                                                accel_mag_m_s2 |-> accel_mag[b.peak_idx + 1]],
                            deceleration   |-> [start_ms |-> b.peak_ms,
                                                end_ms   |-> b.decel_end_ms],
                            follow_through |-> [start_ms |-> b.decel_end_ms,
                                                end_ms   |-> t[Len(t)]]]),
                       peak_gyro_rad_s   |-> MaxOfSeq(gyro_mag),
                       peak_accel_m_s2   |-> MaxOfSeq(accel_mag),
                       swing_duration_ms |-> b.decel_end_ms - b.accel_start_ms,
                       t_ms              |-> t,
                       gyro_mag          |-> gyro_mag,
                       accel_mag         |-> accel_mag,
                       raw_gyro_mag      |-> gyro_mag_raw,
                       boundary_indices  |-> [accel_start |-> b.accel_start_idx,
                                              peak        |-> b.peak_idx,
                                              decel_end   |-> b.decel_end_idx]]

----------------------------------------------------------------------------
(* The event packets and the filter outputs of the model *)

\* gyro magnitudes, in tenths of a rad/s: still, 10 % of a small peak, just
\* under the floor, over the floor, a hard swing
GyroLevels == {0, 5, 45, 60, 100}

\* a signal of n samples at `base`, except for WindowLen samples from Python
\* index `at` on
Windowed(n, base, at, window) ==
    [i \in 1..n |-> IF at < i /\ i <= at + WindowLen THEN window[i - at] ELSE base]

\* the signals of n samples: the window first, in the middle or last
Signals(n) ==
    IF n < WindowLen THEN {[i \in 1..n |-> 0]}
    ELSE {Windowed(n, base, at, window) :
             base \in {0, 60},
             at \in {0, (n - WindowLen) \div 2, n - WindowLen},
             window \in [1..WindowLen -> GyroLevels]}

\* the distance argument of find_peaks, int(SAMPLE_RATE_HZ * 0.05) samples
PeakDistance == (SAMPLE_RATE_HZ * 5) \div 100

\* a still signal of n samples with two one-sample spikes, the first at Python
\* index 1 and the second `gap` samples later
TwoPeaks(n, gap, first, second) ==
    [i \in 1..n |-> IF i = 2 THEN first ELSE IF i = 2 + gap THEN second ELSE 0]

\* the two-spike signals of n samples: spikes just closer than the peak
\* distance and exactly that far apart, equally high or not
TwoPeakSignals(n) ==
    IF n < PeakDistance + 3 THEN {}
    ELSE {TwoPeaks(n, gap, first, second) :
             gap \in {PeakDistance - 1, PeakDistance},
             first \in {60, 100}, second \in {60, 100}}

\* a flat signal of n samples
Flat(n, level) == [i \in 1..n |-> level]

\* the sample taken at Python index i with gyro magnitude mag: the sensor held
\* still under gravity, turning about two axes
Sample(i, mag) ==
    [t     |-> 1000 + 3 * i,
     gyro  |-> <<(3 * mag) \div 5, 0 - ((4 * mag) \div 5), 0>>,
     accel |-> <<0, 0, 98>>]

PacketOf(signal) == [i \in 1..Len(signal) |-> Sample(i - 1, signal[i])]

\* packet lengths: empty, around the sample floor, around the smoothing floor,
\* and long enough for two peaks the peak distance apart
PacketLengths ==
    {0, MinSamples - 1, MinSamples, SmoothMinLen - 1, PeakDistance + 3}
        \cup (SmoothMinLen..MaxSamples)

\* the event packets: any signal while _smooth copies it, flat ones once
\* sosfiltfilt runs or when the packet is too short to be analyzed
EventPackets ==
    UNION {IF MinSamples <= n /\ n < SmoothMinLen
           THEN {PacketOf(g) : g \in Signals(n)}
           ELSE {PacketOf(Flat(n, level)) : level \in {0, 60}} : n \in PacketLengths}

\* what sosfiltfilt may return for a signal: any signal of the same length
FilterOutputs(signal) ==
    IF Len(signal) < SmoothMinLen THEN {signal}
    ELSE Signals(Len(signal)) \cup TwoPeakSignals(Len(signal))

\* an event packet has arrived
InitImu ==
    /\ pc = "open"
    /\ frames_read = 0
    /\ pose_results = <<>>
    /\ http_error = ""
    /\ result = NoResult
    /\ response = NoResponse
    /\ imu_pc = "received"
    /\ samples \in EventPackets
    /\ AuxIdle
    /\ IoIdle
    /\ imu_result = [kind |-> "none"]

\* analyze_swing(samples)
AnalyzeEvent ==
    /\ imu_pc = "received"
    /\ imu_pc' = "done"
    /\ \E filtered_gyro \in FilterOutputs(gyro_mag_raw_of(samples)) :
           imu_result' = imu_analyze_swing(samples, filtered_gyro,
                                           accel_mag_raw_of(samples))
    /\ UNCHANGED samples
    /\ UNCHANGED <<pose_vars, aux_vars, io_vars>>

NextImu == AnalyzeEvent

SpecImu == InitImu /\ [][NextImu]_vars

----------------------------------------------------------------------------
(* Properties of analyze_swing on event packets *)

Analyzed_imu == imu_pc = "done"

\* the keys of the no-swing result
NoSwingKeys ==
    {"error", "phases", "peak_gyro_rad_s", "t_ms", "gyro_mag", "accel_mag",
     "raw_gyro_mag"}

\* the smoothed gyro magnitude of the packet stays below the floor
StaysBelowFloor(gyro_mag) ==
    \A i \in 1..Len(gyro_mag) : gyro_mag[i] < MIN_PEAK_GYRO_RAD

\* C9: analyze_swing returns an error value, an "error" reason with phases
\* None, for an empty packet and for one of fewer than 10 samples; a result
\* without phases always carries an "error" reason; and a packet of at least 10
\* samples whose smoothed gyro magnitude stays below the 5 rad/s floor gets the
\* no-swing result, with peak_gyro_rad_s, t_ms, gyro_mag and raw_gyro_mag and
\* without boundary_indices
C9_ErrorValueNotRaise ==
    Analyzed_imu =>
        /\ "phases" \in DOMAIN imu_result
        /\ imu_result.phases = None <=> "error" \in DOMAIN imu_result
        /\ Len(samples) < MinSamples =>
               imu_result = [error |-> "not enough samples", phases |-> None]
        /\ Len(samples) >= MinSamples =>
               /\ NoSwingKeys \ {"error", "phases"} \subseteq DOMAIN imu_result
               /\ Len(imu_result.gyro_mag) = Len(samples)
               /\ StaysBelowFloor(imu_result.gyro_mag) =>
                      /\ DOMAIN imu_result = NoSwingKeys
                      /\ imu_result.phases = None
                      /\ imu_result.error =
                             "no swing detected (gyro peak below threshold)"
                      /\ imu_result.peak_gyro_rad_s = MaxOfSeq(imu_result.gyro_mag)
                      /\ imu_result.raw_gyro_mag = gyro_mag_raw_of(samples)
                      /\ imu_result.t_ms = timestamps(samples)

\* a packet long enough, its smoothed signal under the floor with a prominent
\* local maximum just under it, has been analyzed
C9_Witness ==
    /\ Analyzed_imu
    /\ Len(samples) >= MinSamples
    /\ StaysBelowFloor(imu_result.gyro_mag)
    /\ \E i \in 2..(Len(samples) - 1) :
           /\ 10 * imu_result.gyro_mag[i] >= 9 * MIN_PEAK_GYRO_RAD
           /\ imu_result.gyro_mag[i - 1] = 0
           /\ imu_result.gyro_mag[i + 1] = 0
    /\ "error" \in DOMAIN imu_result

\* an event was detected in the packet
EventReported == Analyzed_imu /\ imu_result.phases # None

\* C11: the phases of a detected event chain without gap over the packet, from
\* t[0] through t[accel_start], t[peak] and t[decel_end] to t[N-1], with
\* 0 <= accel_start < peak < decel_end <= N-1, and swing_duration_ms, the time
\* from t[accel_start] to t[decel_end], is positive
C11_PhasesChain ==
    EventReported =>
        LET p == imu_result.phases[1]
            b == imu_result.boundary_indices
            t == timestamps(samples)
            n == Len(samples)
        IN  /\ 0 <= b.accel_start /\ b.accel_start < b.peak
            /\ b.peak < b.decel_end /\ b.decel_end <= n - 1
            /\ p.preparation.start_ms = t[1]
            /\ p.preparation.end_ms = t[b.accel_start + 1]
            /\ p.acceleration.start_ms = t[b.accel_start + 1]
            /\ p.acceleration.end_ms = t[b.peak + 1]
            /\ p.peak.t_ms = t[b.peak + 1]
            /\ p.deceleration.start_ms = t[b.peak + 1]
            /\ p.deceleration.end_ms = t[b.decel_end + 1]
            /\ p.follow_through.start_ms = t[b.decel_end + 1]
            /\ p.follow_through.end_ms = t[n]
            /\ imu_result.swing_duration_ms = t[b.decel_end + 1] - t[b.accel_start + 1]
            /\ imu_result.swing_duration_ms > 0

\* an event whose acceleration starts after the first sample and whose
\* deceleration ends before the last one
C11_Witness ==
    /\ EventReported
    /\ imu_result.boundary_indices.accel_start > 0
    /\ imu_result.boundary_indices.decel_end < Len(samples) - 1

\* C12: for a packet of at least 10 samples t_ms, gyro_mag, accel_mag and
\* raw_gyro_mag each have as many entries as the packet, and t_ms holds the
\* packet's timestamps in order, with or without a detected event
C12_ArraysKeepLength ==
    (Analyzed_imu /\ Len(samples) >= MinSamples) =>
        /\ Len(imu_result.t_ms) = Len(samples)
        /\ Len(imu_result.gyro_mag) = Len(samples)
        /\ Len(imu_result.accel_mag) = Len(samples)
        /\ Len(imu_result.raw_gyro_mag) = Len(samples)
        /\ \A i \in 1..Len(samples) : imu_result.t_ms[i] = samples[i].t

\* a packet that _smooth copies has been analyzed and an event was detected
C12_Witness ==
    /\ EventReported
    /\ Len(samples) < SmoothMinLen
    /\ Len(imu_result.gyro_mag) = Len(samples)

\* the Python indices from lo to hi whose smoothed value is under 10% of the
\* value at the reported peak
UnderTenth(lo, hi) ==
    {i \in lo..hi :
        10 * imu_result.gyro_mag[i + 1]
            < imu_result.gyro_mag[imu_result.boundary_indices.peak + 1]}

\* C19: accel_start is the largest index below the peak whose smoothed value
\* is under 10% of the peak's (0 if there is none), decel_end the smallest index
\* above the peak with such a value (N-1 if there is none), and every sample
\* strictly between the two is at least 10% of the peak's value
C19_BoundariesAtTenPercent ==
    EventReported =>
        LET b == imu_result.boundary_indices
            n == Len(imu_result.gyro_mag)
            left == UnderTenth(0, b.peak - 1)
            right == UnderTenth(b.peak + 1, n - 1)
        IN  /\ IF left = {} THEN b.accel_start = 0
               ELSE b.accel_start \in left /\ \A i \in left : i <= b.accel_start
            /\ IF right = {} THEN b.decel_end = n - 1
               ELSE b.decel_end \in right /\ \A i \in right : b.decel_end <= i
            /\ UnderTenth(b.accel_start + 1, b.decel_end - 1) = {}

\* an event with a crossing found on the left, several samples wide, and none
\* on the right, so that decel_end is clamped to the last sample
C19_Witness ==
    /\ EventReported
    /\ imu_result.boundary_indices.accel_start > 0
    /\ imu_result.boundary_indices.accel_start + 1 < imu_result.boundary_indices.peak
    /\ UnderTenth(imu_result.boundary_indices.peak + 1, Len(samples) - 1) = {}
    /\ imu_result.boundary_indices.decel_end = Len(samples) - 1

\* C20: the reported peak is an interior local maximum of the smoothed gyro
\* magnitude, at least 5 rad/s high; no maximum find_peaks accepts (height,
\* prominence, distance) is strictly higher, and of the equally high accepted
\* ones the reported peak is the earliest
C20_TallestPeakChosen ==
    EventReported =>
        LET x == imu_result.gyro_mag
            c == imu_result.boundary_indices.peak
            accepted == find_peaks(x)
        IN  /\ 0 < c /\ c < Len(x) - 1
            /\ x[c] <= x[c + 1] /\ x[c + 2] <= x[c + 1]
            /\ x[c + 1] >= MIN_PEAK_GYRO_RAD
            /\ c \in accepted
            /\ \A q \in accepted :
                   x[q + 1] < x[c + 1] \/ (x[q + 1] = x[c + 1] /\ c <= q)

\* an event in a signal with two accepted peaks of the same height
C20_Witness ==
    /\ EventReported
    /\ \E q \in find_peaks(imu_result.gyro_mag) :
           /\ q > imu_result.boundary_indices.peak
           /\ imu_result.gyro_mag[q + 1]
                  = imu_result.gyro_mag[imu_result.boundary_indices.peak + 1]

\* C10: a packet of at least 10 samples in which some smoothed gyro sample
\* exceeds the 5 rad/s floor gets a result with phases
C10_NoSwingOnlyBelowFloor ==
    (Analyzed_imu /\ Len(samples) >= MinSamples) =>
        ((\E i \in 1..Len(imu_result.gyro_mag) :
              imu_result.gyro_mag[i] > MIN_PEAK_GYRO_RAD)
            => imu_result.phases # None)

----------------------------------------------------------------------------
(* smooth_array of export_metrics.py *)

\* longest array handed to smooth_array
MaxArrayLen == 6

\* widest window asked for
MaxWindow == 7

\* the polyorder default of smooth_array
PolyOrder == 3

\* the metric values of the model
ArrayValues == {0, 10}

\* the arrays of n values: flat, a step in the middle, alternating
ArraysOfLen(n) ==
    {[i \in 1..n |-> 0],
     [i \in 1..n |-> IF 2 * i > n THEN 10 ELSE 0],
     [i \in 1..n |-> IF i % 2 = 0 THEN 10 ELSE 0]}

\* scipy's savgol_filter(x, window_length, polyorder) in its default mode
\* 'interp': ValueError when polyorder is not below window_length or when
\* window_length exceeds the size of x, else one of the arrays of the size of x
savgol_filter(x, window_length, polyorder) ==
    IF polyorder >= window_length \/ window_length > Len(x)
    THEN {[kind |-> "ValueError"]}
    ELSE {[kind |-> "values", values |-> y] : y \in [1..Len(x) -> ArrayValues]}

\* an even window is made odd
odd_window(window) == IF window % 2 = 0 THEN window + 1 ELSE window

\* smooth_array(arr, window): the outcomes it may have
smooth_array(arr, window) ==
    IF Len(arr) < window THEN {[kind |-> "values", values |-> arr]}
    ELSE savgol_filter(arr, odd_window(window), PolyOrder)

PoseIdle ==
    /\ pc = "open"
    /\ frames_read = 0
    /\ pose_results = <<>>
    /\ http_error = ""
    /\ result = NoResult
    /\ response = NoResponse

\* smooth_array has been called with an array and a positive window
InitSmooth ==
    /\ PoseIdle
    /\ ImuIdle
    /\ IoIdle
    /\ analyzer = TheAnalyzer
    /\ calls = <<>>
    /\ env = EnvUnset
    /\ pose_backend = "unset"
    /\ gemini_client = FALSE
    /\ req = [pc |-> "idle", tts_pc |-> "none"]
    /\ health = [kind |-> "none"]
    /\ \E n \in 0..MaxArrayLen, window \in 1..MaxWindow :
           \E arr \in ArraysOfLen(n) :
               sm = [pc |-> "called", arr |-> arr, window |-> window]

\* smooth_array returns or raises
SmoothArrayReturns ==
    /\ sm.pc = "called"
    /\ \E outcome \in smooth_array(sm.arr, sm.window) :
           sm' = [pc |-> "done", arr |-> sm.arr, window |-> sm.window,
                  outcome |-> outcome]
    /\ UNCHANGED <<pose_vars, imu_vars, io_vars>>
    /\ UNCHANGED <<analyzer, calls, env, pose_backend, gemini_client, req, health>>

NextSmooth == SmoothArrayReturns

SpecSmooth == InitSmooth /\ [][NextSmooth]_vars

\* C13: smooth_array(arr, window) with a positive window returns arr unchanged
\* when len(arr) < window and otherwise len(arr) smoothed values, never an
\* error, whatever the length and the parity of the window; and _smooth
\* returns the values it was given for fewer than 15 samples
C13_SmoothingNeverFails ==
    /\ sm.pc = "done" =>
           /\ sm.outcome.kind = "values"
           /\ Len(sm.outcome.values) = Len(sm.arr)
           /\ Len(sm.arr) < sm.window => sm.outcome.values = sm.arr
    /\ \A n \in 0..(SmoothMinLen - 1) :
           smooth(Flat(n, 60), Flat(n, 0)) = Flat(n, 60)

----------------------------------------------------------------------------
(* analyze_swing calls running at once on the shared analyzer *)

\* frames of the video of each concurrent request
ConcFrames == 5

\* a pose result as the angle calculator sees it: the angles of both sides
Sided(right, left) ==
    [right |-> [elbow |-> right.elbow, shoulder |-> right.shoulder, knee |-> right.knee],
     left  |-> [elbow |-> left.elbow, shoulder |-> left.shoulder, knee |-> left.knee],
     torso |-> right.torso]

SidedFrames ==
    {Sided(IdealContactPose, IdealFollowPose), Sided(BadContactPose, UndefinedPose)}

\* the videos of a request: one frame differing from the others
SidedSeries ==
    {[i \in 1..ConcFrames |-> IF i = k THEN a ELSE b] :
        k \in 1..ConcFrames, a \in SidedFrames, b \in SidedFrames}

\* the angles analyze_frame reads for the analyzer's racket side
SidePose(a, frame) ==
    Pose(frame[a.racket_side].elbow, frame[a.racket_side].shoulder,
         frame[a.racket_side].knee, frame.torso)

\* the racket side follows the arm seen last
analyzer_after_frame_adapting(a, frame) ==
    IF frame.left.elbow # None
    THEN [a EXCEPT !.racket_side = "left", !.support_side = "right"]
    ELSE a

\* the analyzer's fields once analyze_frame has run on a frame: as before
analyzer_after_frame(a, frame) == a

\* two requests have reached analyze_swing, each with its own pose results
InitConc ==
    /\ PoseIdle
    /\ ImuIdle
    /\ IoIdle
    /\ sm = [pc |-> "idle"]
    /\ analyzer = TheAnalyzer
    /\ env = EnvUnset
    /\ pose_backend = "available"
    /\ gemini_client = FALSE
    /\ req = [pc |-> "idle", tts_pc |-> "none"]
    /\ health = [kind |-> "none"]
    /\ \E first \in SidedSeries, second \in SidedSeries :
           calls = [c \in 1..2 |->
                       [pc |-> "running",
                        given |-> IF c = 1 THEN first ELSE second,
                        pose_results |-> IF c = 1 THEN first ELSE second,
                        metrics_per_frame |-> <<>>,
                        overlapped |-> FALSE,
                        result |-> NoResult]]

\* the other call is between its first and its last step
Midway(c) ==
    /\ calls[c].pc = "running"
    /\ calls[c].metrics_per_frame # <<>>

\* one turn of the loop of analyze_swing in call c: analyze_frame on the next
\* pose result, appended to the call's own list
ConcAnalyzeFrame(c) ==
    /\ calls[c].pc = "running"
    /\ Len(calls[c].metrics_per_frame) < Len(calls[c].pose_results)
    /\ LET i == Len(calls[c].metrics_per_frame)
           frame == calls[c].pose_results[i + 1]
       IN  /\ calls' = [calls EXCEPT
                  ![c].metrics_per_frame =
                      Append(@, analyze_frame(SidePose(analyzer, frame), i)),
                  ![c].overlapped = @ \/ Midway(3 - c)]
           /\ analyzer' = analyzer_after_frame(analyzer, frame)
    /\ UNCHANGED <<pose_vars, imu_vars, io_vars>>
    /\ UNCHANGED <<sm, env, pose_backend, gemini_client, req, health>>

\* the rest of analyze_swing in call c, on the call's own list
ConcFinish(c) ==
    /\ calls[c].pc = "running"
    /\ Len(calls[c].metrics_per_frame) = Len(calls[c].pose_results)
    /\ calls' = [calls EXCEPT
           ![c].pc = "done",
           ![c].result = swing_result(calls[c].metrics_per_frame)]
    /\ UNCHANGED <<pose_vars, imu_vars, io_vars>>
    /\ UNCHANGED <<sm, analyzer, env, pose_backend, gemini_client, req, health>>

NextConc == \E c \in 1..2 : ConcAnalyzeFrame(c) \/ ConcFinish(c)

SpecConc == InitConc /\ [][NextConc]_vars

\* what call c returns when it runs alone
AloneResult(c) ==
    analyze_swing([i \in 1..Len(calls[c].given) |->
                      SidePose(TheAnalyzer, calls[c].given[i])])

\* C14: analyze_swing writes no field of the shared analyzer and no field of
\* its input frames, and whatever the interleaving each call returns what it
\* returns when run alone on its input
C14_ConcurrentCallsIndependent ==
    /\ analyzer = TheAnalyzer
    /\ \A c \in DOMAIN calls :
           /\ calls[c].pose_results = calls[c].given
           /\ calls[c].pc = "done" => calls[c].result = AloneResult(c)

\* both calls have returned, on different videos, each having run frames
\* while the other was midway
C14_Witness ==
    /\ calls # <<>>
    /\ \A c \in DOMAIN calls : calls[c].pc = "done" /\ calls[c].overlapped
    /\ calls[1].given # calls[2].given
    /\ calls[1].result # calls[2].result

----------------------------------------------------------------------------
(* app.py and vision_provider.py: startup, /health and the provider name *)

\* the values VISION_PROVIDER may be set to
ProviderValues == {"local", "gemini", "GEMINI", "Local", "openai", ""}

\* the environments the server may be started in
Environments ==
    {[VISION_PROVIDER |-> p, GEMINI_API_KEY |-> k] :
        p \in {None} \cup {Some(v) : v \in ProviderValues},
        k \in {None, Some(""), Some("key")}}

\* str.lower() on the provider values
Lower(str) ==
    CASE str = "GEMINI" -> "gemini"
      [] str = "Local" -> "local"
      [] OTHER -> str

\* os.environ.get(name, default)
environ_get(environ, name, default) ==
    IF environ[name] = None THEN default ELSE environ[name][1]

\* get_provider_name()
get_provider_name(environ) == Lower(environ_get(environ, "VISION_PROVIDER", "local"))

\* the truth value of app.pose_backend
backend_set(backend) == backend = "available"

\* the answer of /health
health_check(environ, backend) ==
    [status          |-> "ok",
     vision_provider |-> get_provider_name(environ),
     pose            |-> IF backend_set(backend) THEN "available" ELSE "unavailable"]

\* startup(): MediaPipe initializes and the analyzer is created, or it fails
\* or raises and pose analysis is disabled
Startup ==
    /\ pose_backend = "unset"
    /\ \E outcome \in {"available", "none"} : pose_backend' = outcome
    /\ UNCHANGED <<pose_vars, imu_vars, io_vars>>
    /\ UNCHANGED <<sm, analyzer, calls, env, gemini_client, req, health>>

\* GET /health
HealthCheck ==
    /\ pose_backend # "unset"
    /\ health' = health_check(env, pose_backend)
    /\ UNCHANGED <<pose_vars, imu_vars, io_vars>>
    /\ UNCHANGED <<sm, analyzer, calls, env, pose_backend, gemini_client, req>>

----------------------------------------------------------------------------
(* lmstudio_service.py: the reply text and analyze_video_with_lmstudio *)

\* a text is the sequence of its lines; the lines of the model, <fence>
\* standing for the three backquotes of a markdown code fence
FenceLine == "<fence>"

FenceJsonLine == "<fence>json"

JsonObjectLine == "{json}"

JsonListLine == "[json]"

ProseLine == "prose"

BlankLine == ""

\* a JSON object between fences, or before a fence, on one line
FencedOnOneLine == "<fence>{json}<fence>"

ObjectThenFence == "{json}<fence>"

FenceThenObject == "<fence>{json}"

RECURSIVE lstrip(_)
\* str.lstrip() on a text: blank lines at the start are whitespace
lstrip(text) ==
    IF text # <<>> /\ Head(text) = BlankLine THEN lstrip(Tail(text)) ELSE text

RECURSIVE rstrip(_)
\* str.rstrip()
rstrip(text) ==
    IF text # <<>> /\ text[Len(text)] = BlankLine
    THEN rstrip(SubSeq(text, 1, Len(text) - 1))
    ELSE text

\* text.startswith(fence), the fence being three backquotes
starts_with_fence(text) ==
    text # <<>> /\ Head(text) \in {FenceLine, FenceJsonLine, FencedOnOneLine, FenceThenObject}

\* text.endswith(fence)
ends_with_fence(text) ==
    text # <<>> /\ text[Len(text)] \in {FenceLine, FencedOnOneLine, ObjectThenFence}

\* text[:-3] on a text that ends with a fence
drop_last_three(text) ==
    LET last == text[Len(text)]
        rest == SubSeq(text, 1, Len(text) - 1)
    IN  CASE last = FenceLine -> Append(rest, BlankLine)
          [] last = FencedOnOneLine -> Append(rest, FenceThenObject)
          [] last = ObjectThenFence -> Append(rest, JsonObjectLine)
          [] OTHER -> text

\* _strip_code_fences
strip_code_fences(text) ==
    LET stripped == rstrip(lstrip(text))
    IN  IF starts_with_fence(stripped)
        THEN LET opened == IF Len(stripped) > 1 THEN Tail(stripped) ELSE stripped
             IN  IF ends_with_fence(rstrip(opened))
                 THEN rstrip(drop_last_three(rstrip(opened)))
                 ELSE opened
        ELSE stripped

\* json.loads: "object" or "list" for a text holding one JSON value, blank
\* lines around it allowed, else "JSONDecodeError"
json_loads(text) ==
    LET value == rstrip(lstrip(text))
    IN  IF value = <<JsonObjectLine>> THEN "object"
        ELSE IF value = <<JsonListLine>> THEN "list"
        ELSE "JSONDecodeError"

\* the replies of the model served by LM Studio
ReplyTexts ==
    {<<JsonObjectLine>>,
     <<FenceJsonLine, JsonObjectLine, FenceLine>>,
     <<BlankLine, FenceLine, JsonObjectLine, FenceLine, BlankLine>>,
     <<FenceJsonLine, JsonObjectLine>>,
     <<FenceJsonLine, ObjectThenFence>>,
     <<FencedOnOneLine>>,
     <<ProseLine>>,
     <<ProseLine, JsonObjectLine>>,
     <<FenceJsonLine, ProseLine, FenceLine>>,
     <<JsonObjectLine, FenceLine>>,
     <<JsonListLine>>}

\* the result object built from the parsed reply
VisionResult ==
    [feedback_text |-> "Drop the racket head sooner.",
     metric_name   |-> "Racket Drop",
     metric_value  |-> "Late"]

ErrNoFrames == "No frames could be extracted from video"

ErrCannotConnect == "Cannot connect to LM Studio"

ErrLmNonJson == "LM Studio returned non-JSON response"

ErrGeminiNonJson == "Gemini returned non-JSON response"

ErrNoApiKey == "GEMINI_API_KEY environment variable is not set"

\* a call that returned a value
Returned(value) == [kind |-> "returned", value |-> value]

\* a call that raised an exception of a class with a message
Raised(class, message) == [kind |-> "raised", class |-> class, message |-> message]

\* analyze_video_with_lmstudio once the reply text is in hand: the code fences
\* stripped, the text parsed, the result object built
lmstudio_result(raw_text) ==
    LET parsed == json_loads(strip_code_fences(raw_text))
    IN  IF parsed = "JSONDecodeError" THEN Raised("RuntimeError", ErrLmNonJson)
        ELSE IF parsed = "list" THEN Raised("AttributeError", "list object has no attribute get")
        ELSE Returned(VisionResult)

----------------------------------------------------------------------------
(* gemini_service.py: the client, the vision reply and generate_tts_audio *)

\* _get_client(): the cached client, a new one, or RuntimeError without a key
get_client(client_set, environ) ==
    IF client_set THEN Returned("client")
    ELSE IF environ_get(environ, "GEMINI_API_KEY", "") = ""
         THEN Raised("RuntimeError", ErrNoApiKey)
         ELSE Returned("client")

\* the texts Gemini may answer the vision prompt with
GeminiTexts == {<<JsonObjectLine>>, <<ProseLine>>, <<>>, <<JsonListLine>>}

\* analyze_video_with_gemini once the raw text is in hand
gemini_result(raw) ==
    LET parsed == json_loads(raw)
    IN  IF parsed = "JSONDecodeError" THEN Raised("RuntimeError", ErrGeminiNonJson)
        ELSE IF parsed = "list" THEN Raised("AttributeError", "list object has no attribute get")
        ELSE Returned(VisionResult)

\* a part of a candidate's content, with inline data or without
Part(data) == [inline_data |-> data]

\* a candidate of a TTS response, with content parts or without content
Candidate(parts) == [content |-> parts]

\* the TTS responses of the model: no candidate, no content, no part, a
\* first part without inline data or with empty data, audio in the first part
\* of the first candidate, audio only further on
TtsResponses ==
    {<<>>,
     <<Candidate(None)>>,
     <<Candidate(Some(<<>>))>>,
     <<Candidate(Some(<<Part(None), Part(Some("audio-2"))>>))>>,
     <<Candidate(Some(<<Part(Some(""))>>))>>,
     <<Candidate(Some(<<Part(Some("audio-1")), Part(Some("audio-2"))>>))>>,
     <<Candidate(None), Candidate(Some(<<Part(Some("audio-3"))>>))>>,
     <<Candidate(Some(<<Part(Some("audio-1"))>>)),
       Candidate(Some(<<Part(Some("audio-3"))>>))>>}

\* what client.models.generate_content may do
SdkOutcomes ==
    {Raised("APIError", "the SDK call failed")} \cup {Returned(r) : r \in TtsResponses}

\* _call() of generate_tts_audio on a response: the data of the first part of
\* the first candidate, or None
tts_call(tts_response) ==
    IF /\ tts_response # <<>>
       /\ tts_response[1].content # None
       /\ tts_response[1].content[1] # <<>>
    THEN LET part == tts_response[1].content[1][1]
         IN  IF part.inline_data # None /\ part.inline_data[1] # ""
             THEN Some(part.inline_data[1])
             ELSE None
    ELSE None

on_tts_exception_reraised(exception) == exception

\* except Exception: return None
on_tts_exception(exception) == Returned(None)

----------------------------------------------------------------------------
(* app.py: POST /api/analyze-swing *)

\* frames extract_frames may return
FrameCounts == {0, 6}

\* the request as analyze_swing starts on it: the pose task is submitted to
\* the executor when pose estimation is available, the vision task always
NewRequest(backend) ==
    [pc            |-> "parallel",
     pose_task     |-> IF backend_set(backend) THEN "running" ELSE "skipped",
     vision_pc     |-> "start",
     frames        |-> None,
     posted        |-> FALSE,
     post_outcome  |-> "none",
     reply         |-> None,
     vision        |-> NoResult,
     tts_pc        |-> "none",
     tts_sdk       |-> NoResult,
     tts_outcome   |-> NoResult,
     response      |-> NoResponse]

\* the vision task ended with this outcome of analyze_video
VisionEnds(r, outcome) ==
    [r EXCEPT !.vision_pc = IF outcome.kind = "returned" THEN "ok" ELSE "error",
              !.vision = outcome]

\* POST /api/analyze-swing arrives
ReceiveSwing ==
    /\ pose_backend # "unset"
    /\ req.pc \in {"idle", "responded"}
    /\ req' = NewRequest(pose_backend)
    /\ UNCHANGED <<pose_vars, imu_vars, io_vars>>
    /\ UNCHANGED <<sm, analyzer, calls, env, pose_backend, gemini_client, health>>

\* _analyze_video_sync returns on its executor thread, or raises
PoseTaskEnds ==
    /\ req.pc = "parallel"
    /\ req.pose_task = "running"
    /\ \E outcome \in {"ok", "error"} : req' = [req EXCEPT !.pose_task = outcome]
    /\ UNCHANGED <<pose_vars, imu_vars, io_vars>>
    /\ UNCHANGED <<sm, analyzer, calls, env, pose_backend, gemini_client, health>>

no_frames_never(frames_b64) == FALSE

\* `if not frames_b64:` on the number of extracted frames
no_frames(frames_b64) == frames_b64 = 0

\* analyze_video routes to LM Studio: extract_frames returns frames, or none,
\* or raises; without frames analyze_video_with_lmstudio raises
LmExtractFrames ==
    /\ req.pc = "parallel"
    /\ req.vision_pc = "start"
    /\ get_provider_name(env) # "gemini"
    /\ \/ \E n \in FrameCounts :
              req' = IF no_frames(n)
                     THEN VisionEnds([req EXCEPT !.frames = Some(n)],
                                     Raised("RuntimeError", ErrNoFrames))
                     ELSE [req EXCEPT !.frames = Some(n), !.vision_pc = "extracted"]
       \/ req' = VisionEnds(req, Raised("RuntimeError", "ffmpeg frame extraction failed"))
    /\ UNCHANGED <<pose_vars, imu_vars, io_vars>>
    /\ UNCHANGED <<sm, analyzer, calls, env, pose_backend, gemini_client, health>>

\* client.post and raise_for_status: a response, no connection, or an error
\* status
LmPost ==
    /\ req.pc = "parallel"
    /\ req.vision_pc = "extracted"
    /\ \E outcome \in {"ok", "ConnectError", "HTTPStatusError"} :
           LET posted == [req EXCEPT !.posted = TRUE, !.post_outcome = outcome]
           IN  req' = CASE outcome = "ok" -> [posted EXCEPT !.vision_pc = "posted"]
                        [] outcome = "ConnectError" ->
                               VisionEnds(posted, Raised("RuntimeError", ErrCannotConnect))
                        [] OTHER ->
                               VisionEnds(posted, Raised("HTTPStatusError", "error status"))
    /\ UNCHANGED <<pose_vars, imu_vars, io_vars>>
    /\ UNCHANGED <<sm, analyzer, calls, env, pose_backend, gemini_client, health>>

\* the reply text is read, stripped and parsed
LmReply ==
    /\ req.pc = "parallel"
    /\ req.vision_pc = "posted"
    /\ \E raw_text \in ReplyTexts :
           req' = VisionEnds([req EXCEPT !.reply = Some(raw_text)],
                             lmstudio_result(raw_text))
    /\ UNCHANGED <<pose_vars, imu_vars, io_vars>>
    /\ UNCHANGED <<sm, analyzer, calls, env, pose_backend, gemini_client, health>>

\* analyze_video routes to Gemini: _get_client()
GeminiGetClient ==
    /\ req.pc = "parallel"
    /\ req.vision_pc = "start"
    /\ get_provider_name(env) = "gemini"
    /\ LET client == get_client(gemini_client, env)
       IN  IF client.kind = "raised"
           THEN req' = VisionEnds(req, client) /\ UNCHANGED gemini_client
           ELSE req' = [req EXCEPT !.vision_pc = "gemini_call"] /\ gemini_client' = TRUE
    /\ UNCHANGED <<pose_vars, imu_vars, io_vars>>
    /\ UNCHANGED <<sm, analyzer, calls, env, pose_backend, health>>

\* the Gemini vision call returns a text, or raises
GeminiReply ==
    /\ req.pc = "parallel"
    /\ req.vision_pc = "gemini_call"
    /\ \/ \E raw \in GeminiTexts :
              req' = VisionEnds([req EXCEPT !.reply = Some(raw)], gemini_result(raw))
       \/ req' = VisionEnds(req, Raised("APIError", "the SDK call failed"))
    /\ UNCHANGED <<pose_vars, imu_vars, io_vars>>
    /\ UNCHANGED <<sm, analyzer, calls, env, pose_backend, gemini_client, health>>

\* vision_result of the endpoint: the result object, None after an exception
vision_result_of(r) ==
    IF r.vision.kind = "returned" THEN Some(r.vision.value) ELSE None

tts_wanted_always(vision_result) == TRUE

\* `if vision_result:` a result object is true, None is not
tts_wanted(vision_result) == vision_result # None

\* both tasks are over (asyncio.gather, or the lone vision await): TTS is
\* requested if the vision analysis succeeded
Join ==
    /\ req.pc = "parallel"
    /\ req.pose_task \in {"ok", "error", "skipped"}
    /\ req.vision_pc \in {"ok", "error"}
    /\ req' = [req EXCEPT
           !.pc = "joined",
           !.tts_pc = IF tts_wanted(vision_result_of(req)) THEN "requested" ELSE "skipped"]
    /\ UNCHANGED <<pose_vars, imu_vars, io_vars>>
    /\ UNCHANGED <<sm, analyzer, calls, env, pose_backend, gemini_client, health>>

\* generate_tts: generate_tts_audio when the provider is gemini, else None
TtsRoute ==
    /\ req.tts_pc = "requested"
    /\ req' = IF get_provider_name(env) = "gemini"
              THEN [req EXCEPT !.tts_pc = "client"]
              ELSE [req EXCEPT !.tts_pc = "done", !.tts_outcome = Returned(None)]
    /\ UNCHANGED <<pose_vars, imu_vars, io_vars>>
    /\ UNCHANGED <<sm, analyzer, calls, env, pose_backend, gemini_client, health>>

\* generate_tts_audio: _get_client() inside the try
TtsGetClient ==
    /\ req.tts_pc = "client"
    /\ LET client == get_client(gemini_client, env)
       IN  IF client.kind = "raised"
           THEN /\ req' = [req EXCEPT !.tts_pc = "done",
                                      !.tts_outcome = on_tts_exception(client)]
                /\ UNCHANGED gemini_client
           ELSE /\ req' = [req EXCEPT !.tts_pc = "call"]
                /\ gemini_client' = TRUE
    /\ UNCHANGED <<pose_vars, imu_vars, io_vars>>
    /\ UNCHANGED <<sm, analyzer, calls, env, pose_backend, health>>

\* generate_tts_audio: _call() on a worker thread
TtsCall ==
    /\ req.tts_pc = "call"
    /\ \E sdk \in SdkOutcomes :
           req' = [req EXCEPT
               !.tts_pc = "done",
               !.tts_sdk = sdk,
               !.tts_outcome = IF sdk.kind = "raised" THEN on_tts_exception(sdk)
                               ELSE Returned(tts_call(sdk.value))]
    /\ UNCHANGED <<pose_vars, imu_vars, io_vars>>
    /\ UNCHANGED <<sm, analyzer, calls, env, pose_backend, gemini_client, health>>

\* the endpoint with a gather that lets the first exception of a task through
complete_response_propagating(r) ==
    IF r.pose_task = "error" \/ r.vision.kind = "raised"
    THEN [kind |-> "error", status |-> 500]
    ELSE [kind            |-> "complete",
          pose_analysis   |-> IF r.pose_task = "ok" THEN Some("analysis") ELSE None,
          gemini_analysis |-> vision_result_of(r),
          audio_base64    |-> IF r.tts_pc = "done" THEN r.tts_outcome.value ELSE None,
          pose_error      |-> IF r.pose_task = "skipped"
                              THEN Some("MediaPipe unavailable, pose analysis skipped")
                              ELSE None,
          vision_error    |-> None]

\* the CompleteAnalysisResponse, or the error an exception of TTS ends in;
\* pose_error is str() of the pose task's exception or the skipped notice
complete_response(r) ==
    IF r.tts_pc = "done" /\ r.tts_outcome.kind = "raised"
    THEN [kind |-> "error", status |-> 500]
    ELSE [kind            |-> "complete",
          pose_analysis   |-> IF r.pose_task = "ok" THEN Some("analysis") ELSE None,
          gemini_analysis |-> vision_result_of(r),
          audio_base64    |-> IF r.tts_pc = "done" THEN r.tts_outcome.value ELSE None,
          pose_error      |-> CASE r.pose_task = "error" -> Some("400: pose analysis failed")
                                [] r.pose_task = "skipped" ->
                                       Some("MediaPipe unavailable, pose analysis skipped")
                                [] OTHER -> None,
          vision_error    |-> IF r.vision.kind = "raised" THEN Some(r.vision.message)
                              ELSE None]

\* the endpoint returns
Respond ==
    /\ req.pc = "joined"
    /\ req.tts_pc \in {"skipped", "done"}
    /\ req' = [req EXCEPT !.pc = "responded", !.response = complete_response(req)]
    /\ UNCHANGED <<pose_vars, imu_vars, io_vars>>
    /\ UNCHANGED <<sm, analyzer, calls, env, pose_backend, gemini_client, health>>

\* the server starts in some environment
InitApi ==
    /\ PoseIdle
    /\ ImuIdle
    /\ IoIdle
    /\ sm = [pc |-> "idle"]
    /\ analyzer = TheAnalyzer
    /\ calls = <<>>
    /\ env \in Environments
    /\ pose_backend = "unset"
    /\ gemini_client = FALSE
    /\ req = [pc |-> "idle", tts_pc |-> "none"]
    /\ health = [kind |-> "none"]

NextApi ==
    \/ Startup
    \/ HealthCheck
    \/ ReceiveSwing
    \/ PoseTaskEnds
    \/ LmExtractFrames
    \/ LmPost
    \/ LmReply
    \/ GeminiGetClient
    \/ GeminiReply
    \/ Join
    \/ TtsRoute
    \/ TtsGetClient
    \/ TtsCall
    \/ Respond

SpecApi == InitApi /\ [][NextApi]_vars

----------------------------------------------------------------------------
(* Properties of the API *)

\* C15: /health always answers status "ok", vision_provider "local" or
\* "gemini" and pose "available" or "unavailable", whatever VISION_PROVIDER is
\* set to and however startup ended
C15_HealthAnswer ==
    health # [kind |-> "none"] =>
        /\ health.status = "ok"
        /\ health.vision_provider \in {"local", "gemini"}
        /\ health.pose \in {"available", "unavailable"}

\* a request has got as far as the endpoint's TTS step
TtsRequested == req.tts_pc \in {"requested", "client", "call", "done"}

\* C16: text-to-speech is requested only once the pose task and the vision
\* task are both over and the vision analysis succeeded; in the response
\* audio_base64 is non-null only if gemini_analysis is, and it is null whenever
\* the provider is not gemini
C16_TtsAfterVision ==
    /\ TtsRequested =>
           /\ req.pose_task \in {"ok", "error", "skipped"}
           /\ req.vision_pc = "ok"
    /\ (req.pc = "responded" /\ req.response.kind = "complete") =>
           /\ req.response.audio_base64 # None => req.response.gemini_analysis # None
           /\ get_provider_name(env) # "gemini" => req.response.audio_base64 = None

\* a response with audio has been sent, the pose task having run
C16_Witness ==
    /\ req.pc = "responded"
    /\ req.response.kind = "complete"
    /\ req.response.audio_base64 # None
    /\ req.pose_task \in {"ok", "error"}

\* the request's vision task went to LM Studio
ViaLmStudio == req.pc # "idle" /\ get_provider_name(env) # "gemini"

\* the reply holds one JSON value, bare or between code fences: an opening
\* fence line, the value, and a closing fence on its own line, after the
\* value or missing; blank lines do not count
JsonWithinFences(text) ==
    LET lines == SelectSeq(text, LAMBDA line : line # BlankLine)
        opening == {FenceLine, FenceJsonLine}
        values == {JsonObjectLine, JsonListLine}
    IN  \/ Len(lines) = 1 /\ lines[1] \in values
        \/ Len(lines) = 2 /\ lines[1] \in opening
                          /\ lines[2] \in values \cup {ObjectThenFence}
        \/ Len(lines) = 3 /\ lines[1] \in opening /\ lines[2] \in values
                          /\ lines[3] = FenceLine

\* C18: analyze_video_with_lmstudio returns a result object only when frames
\* were extracted, the POST succeeded and the reply, code fences stripped,
\* parsed as JSON; no frames, no connection and a non-JSON reply each raise
\* RuntimeError with their own message; and nothing is posted when no frame
\* was extracted
C18_LmStudioResultOrError ==
    ViaLmStudio =>
        /\ req.posted => (req.frames # None /\ req.frames[1] > 0)
        /\ req.vision_pc = "ok" =>
               /\ req.frames # None /\ req.frames[1] > 0
               /\ req.post_outcome = "ok"
               /\ req.reply # None /\ JsonWithinFences(req.reply[1])
        /\ req.frames = Some(0) =>
               /\ req.vision = Raised("RuntimeError", ErrNoFrames)
               /\ ~req.posted
        /\ req.post_outcome = "ConnectError" =>
               req.vision = Raised("RuntimeError", ErrCannotConnect)
        /\ (req.reply # None /\ ~JsonWithinFences(req.reply[1])) =>
               req.vision = Raised("RuntimeError", ErrLmNonJson)

\* LM Studio answered with JSON between code fences and a result was returned
C18_Witness ==
    /\ ViaLmStudio
    /\ req.vision_pc = "ok"
    /\ req.reply[1][1] = FenceJsonLine
    /\ req.vision.value = VisionResult

----------------------------------------------------------------------------
(* generate_tts_audio called on its own *)

\* generate_tts_audio(text) has been called, with or without a cached client
InitTts ==
    /\ PoseIdle
    /\ ImuIdle
    /\ IoIdle
    /\ sm = [pc |-> "idle"]
    /\ analyzer = TheAnalyzer
    /\ calls = <<>>
    /\ env \in Environments
    /\ pose_backend = "unset"
    /\ gemini_client \in {FALSE} \cup {TRUE : k \in {env.GEMINI_API_KEY} \ {None, Some("")}}
    /\ \E text \in {"", VisionResult.feedback_text} :
           req = [pc |-> "direct", text |-> text, tts_pc |-> "client",
                  tts_sdk |-> NoResult, tts_outcome |-> NoResult]
    /\ health = [kind |-> "none"]

NextTts == TtsGetClient \/ TtsCall

SpecTts == InitTts /\ [][NextTts]_vars

\* the response carries audio data in the first part of its first candidate
HasFirstAudio(tts_response) ==
    /\ Len(tts_response) >= 1
    /\ tts_response[1].content # None
    /\ Len(tts_response[1].content[1]) >= 1
    /\ tts_response[1].content[1][1].inline_data \notin {None, Some("")}

\* C17: generate_tts_audio never raises; it returns None when the client
\* cannot be built for want of an API key, when the SDK raises and when the
\* response carries no audio data, and otherwise the audio data of the first
\* part of the first candidate
C17_TtsNeverRaises ==
    req.tts_pc = "done" =>
        /\ req.tts_outcome.kind = "returned"
        /\ IF req.tts_sdk.kind = "returned" /\ HasFirstAudio(req.tts_sdk.value)
           THEN req.tts_outcome.value
                    = req.tts_sdk.value[1].content[1][1].inline_data
           ELSE req.tts_outcome.value = None

\* a call without an API key has returned None
C17_Witness ==
    /\ req.pc = "direct"
    /\ req.tts_pc = "done"
    /\ environ_get(env, "GEMINI_API_KEY", "") = ""
    /\ req.tts_sdk = NoResult
    /\ req.tts_outcome = Returned(None)

----------------------------------------------------------------------------
(* _detect_phase on the frames of the scored series *)

\* C21: a frame is classified READY whenever its racket-arm elbow angle, its
\* racket-arm shoulder angle or its torso rotation is undefined, and otherwise
\* gets the one phase the nested thresholds give: rotation > 30 with shoulder
\* < 60 / < 120 / else, or shoulder > 150 / > 90 / else.
C21_UndefinedAngleIsReady ==
    Analyzed =>
        \A i \in 1..result.total_frames :
            LET m == result.metrics_per_frame[i]
                shoulder == m.racket_shoulder_angle
                torso == m.torso_rotation
            IN  IF m.racket_elbow_angle = None \/ shoulder = None \/ torso = None
                THEN m.phase = "ready"
                ELSE m.phase =
                         IF torso[1] > 30
                         THEN IF shoulder[1] < 60 THEN "backswing"
                              ELSE IF shoulder[1] < 120 THEN "forward_swing"
                              ELSE "follow_through"
                         ELSE IF shoulder[1] > 150 THEN "follow_through"
                         ELSE IF shoulder[1] > 90 THEN "contact"
                         ELSE "preparation"

----------------------------------------------------------------------------
(* _detect_phase_boundaries on the series of the pose pipeline *)

\* the phase of the frame at Python index i of the analyzed series
PhaseAt(i) == result.metrics_per_frame[i + 1].phase

\* C22: a run of one single frame i of phase P, with a frame of another phase
\* before it and after it, is the entry P -> (i, i) of the phase mapping.
C22_SingleFrameRunKept ==
    Analyzed =>
        \A i \in 1..(result.total_frames - 2) :
            (PhaseAt(i - 1) # PhaseAt(i) /\ PhaseAt(i + 1) # PhaseAt(i)) =>
                /\ PhaseAt(i) \in DOMAIN result.phases
                /\ result.phases[PhaseAt(i)] = <<i, i>>

\* C28: every entry P -> (start, end) of the phase mapping is a maximal run of
\* P: 0 <= start <= end <= N-1, every frame of start..end is classified P, the
\* frame before start and the frame after end are not, and the intervals of
\* different phases are pairwise disjoint.
C28_EntriesAreMaximalRuns ==
    Analyzed =>
        LET N == result.total_frames
            phases == result.phases
        IN  /\ \A p \in DOMAIN phases :
                   /\ 0 <= phases[p][1]
                   /\ phases[p][1] <= phases[p][2]
                   /\ phases[p][2] <= N - 1
                   /\ \A i \in phases[p][1]..phases[p][2] : PhaseAt(i) = p
                   /\ phases[p][1] > 0 => PhaseAt(phases[p][1] - 1) # p
                   /\ phases[p][2] < N - 1 => PhaseAt(phases[p][2] + 1) # p
            /\ \A p, q \in DOMAIN phases :
                   p # q => (phases[p][2] < phases[q][1] \/ phases[q][2] < phases[p][1])

\* a series of three phases in which CONTACT occurred in two separate runs
C28_Witness ==
    /\ Analyzed
    /\ Cardinality(DOMAIN result.phases) = 3
    /\ \E i, j, k \in 0..(result.total_frames - 1) :
           /\ i < j /\ j < k
           /\ PhaseAt(i) = "contact" /\ PhaseAt(j) # "contact" /\ PhaseAt(k) = "contact"

\* C25: contact_angles (and contact_posture, set by the same statements from
\* the same pose) of the AnalysisResponse come from the frame the analyzer took
\* contact_elbow_angle and contact_knee_angle from, so the headline values are
\* the racket-arm elbow and knee angle of contact_angles.
C25_ContactAnglesOfHeadlineFrame ==
    (Analyzed /\ response # NoResponse) =>
        /\ response.contact_elbow_angle = OrZero(response.contact_angles.elbow)
        /\ response.contact_knee_angle = OrZero(response.contact_angles.knee)

----------------------------------------------------------------------------
(* tennis_analyzer.py: _calculate_torso_rotation on the keypoints of a pose.
   Coordinates are whole multiples of 1e-9, a missing keypoint is None, a
   keypoint is the pair <<x, y>>. *)

\* the 1e-8 of the norm test, in coordinate units
NORM_EPSILON == 10

\* np.dot of two 2D vectors
Dot(u, v) == u[1] * v[1] + u[2] * v[2]

\* np.degrees(np.arccos(np.clip(dot / (norm_s * norm_h), -1, 1))) for vectors
\* whose angle is a multiple of 45 degrees, told by the sign of the dot
\* product and by the size of the cross product next to it
degrees_between(shoulder_vec, hip_vec) ==
    LET dot == Dot(shoulder_vec, hip_vec)
        cross == shoulder_vec[1] * hip_vec[2] - shoulder_vec[2] * hip_vec[1]
    IN  CASE cross = 0 /\ dot > 0 -> 0
          [] Abs(cross) = dot /\ dot > 0 -> 45
          [] dot = 0 /\ cross # 0 -> 90
          [] Abs(cross) = -dot /\ dot < 0 -> 135
          [] cross = 0 /\ dot < 0 -> 180

\* _calculate_torso_rotation testing the norms against 0 only
calculate_torso_rotation_zero_norm(keypoints) ==
    IF \E k \in DOMAIN keypoints : keypoints[k] = None
    THEN None
    ELSE LET shoulder_vec == <<keypoints.right_shoulder[1] - keypoints.left_shoulder[1],
                               keypoints.right_shoulder[2] - keypoints.left_shoulder[2]>>
             hip_vec == <<keypoints.right_hip[1] - keypoints.left_hip[1],
                          keypoints.right_hip[2] - keypoints.left_hip[2]>>
         IN  IF Dot(shoulder_vec, shoulder_vec) = 0 \/ Dot(hip_vec, hip_vec) = 0
             THEN None
             ELSE Some(degrees_between(shoulder_vec, hip_vec))

\* _calculate_torso_rotation: Optional[float]; norm < 1e-8 is norm^2 < 1e-16
calculate_torso_rotation(keypoints) ==
    IF \E k \in DOMAIN keypoints : keypoints[k] = None
    THEN None
    ELSE LET shoulder_vec == <<keypoints.right_shoulder[1] - keypoints.left_shoulder[1],
                               keypoints.right_shoulder[2] - keypoints.left_shoulder[2]>>
             hip_vec == <<keypoints.right_hip[1] - keypoints.left_hip[1],
                          keypoints.right_hip[2] - keypoints.left_hip[2]>>
         IN  IF \/ Dot(shoulder_vec, shoulder_vec) < NORM_EPSILON * NORM_EPSILON
                \/ Dot(hip_vec, hip_vec) < NORM_EPSILON * NORM_EPSILON
             THEN None
             ELSE Some(degrees_between(shoulder_vec, hip_vec))

\* the left and right keypoint of a body line: one or both missing, coincident,
\* closer than the epsilon, or exactly the epsilon apart along an axis or along
\* both; the line starts at the origin or away from it
BodyLines ==
    LET far == NORM_EPSILON
        near == NORM_EPSILON - 1
        offsets == {<<0, 0>>, <<near, 0>>, <<far, 0>>, <<far, far>>, <<0, far>>,
                    <<-far, far>>, <<-far, 0>>}
        starts == {<<0, 0>>, <<far, far>>}
    IN  {<<None, None>>, <<None, <<far, 0>>>>, <<<<0, 0>>, None>>}
        \cup {<<s, <<s[1] + d[1], s[2] + d[2]>>>> : s \in starts, d \in offsets}

\* the four keypoints _calculate_torso_rotation reads
KeypointSets ==
    {[left_shoulder |-> s[1], right_shoulder |-> s[2],
      left_hip |-> h[1], right_hip |-> h[2]] : s \in BodyLines, h \in BodyLines}

\* a valid pose with these keypoints, its arm raised to shoulder 100
KeypointPose(keypoints) ==
    [elbow |-> Some(160), shoulder |-> Some(100), knee |-> Some(150),
     torso |-> calculate_torso_rotation(keypoints), keypoints |-> keypoints]

\* shoulders turned 0, 45 or 90 degrees against the hips
TurnedKeypoints ==
    {[left_shoulder |-> <<0, 0>>, right_shoulder |-> <<NORM_EPSILON, t>>,
      left_hip |-> <<0, 0>>, right_hip |-> <<NORM_EPSILON, 0>>] : t \in {0, NORM_EPSILON}}
    \cup {[left_shoulder |-> <<0, 0>>, right_shoulder |-> <<0, NORM_EPSILON>>,
           left_hip |-> <<0, 0>>, right_hip |-> <<NORM_EPSILON, 0>>]}

\* the read loop has kept five poses: one with any keypoints, one turned
InitTorso ==
    /\ pc = "reading"
    /\ frames_read = 5
    /\ \E probe \in KeypointSets, turned \in TurnedKeypoints, first \in BOOLEAN :
           pose_results =
               IF first
               THEN <<KeypointPose(probe), UndefinedPose, KeypointPose(turned),
                      UndefinedPose, UndefinedPose>>
               ELSE <<UndefinedPose, KeypointPose(turned), UndefinedPose,
                      UndefinedPose, KeypointPose(probe)>>
    /\ http_error = ""
    /\ result = NoResult
    /\ response = NoResponse
    /\ ImuIdle
    /\ IoIdle
    /\ AuxIdle

SpecTorso == InitTorso /\ [][NextScore]_vars

\* a keypoint is missing, or the shoulder line or the hip line is shorter than
\* the epsilon
Degenerate(keypoints) ==
    \/ \E k \in DOMAIN keypoints : keypoints[k] = None
    \/ \E line \in {<<"left_shoulder", "right_shoulder">>, <<"left_hip", "right_hip">>} :
           LET dx == keypoints[line[2]][1] - keypoints[line[1]][1]
               dy == keypoints[line[2]][2] - keypoints[line[1]][2]
           IN  dx * dx + dy * dy < NORM_EPSILON * NORM_EPSILON

\* C23: the torso rotation of a frame is undefined whenever one of its four
\* shoulder / hip keypoints is missing or a line vector is shorter than 1e-8,
\* and analyze_swing still returns a result whose max_torso_rotation is the
\* largest rotation of the series with every undefined rotation counted as 0.
C23_DegenerateTorsoUndefined ==
    pc = "done" =>
        /\ http_error = ""
        /\ result # NoResult
        /\ \A i \in 1..Len(pose_results) :
               ("keypoints" \in DOMAIN pose_results[i]
                /\ Degenerate(pose_results[i].keypoints)) =>
                   result.metrics_per_frame[i].torso_rotation = None
        /\ \A i \in 1..Len(pose_results) :
               result.max_torso_rotation
               >= (IF result.metrics_per_frame[i].torso_rotation = None THEN 0
                   ELSE result.metrics_per_frame[i].torso_rotation[1])
        /\ \E i \in 1..Len(pose_results) :
               result.max_torso_rotation
               = (IF result.metrics_per_frame[i].torso_rotation = None THEN 0
                  ELSE result.metrics_per_frame[i].torso_rotation[1])

\* a series with a frame whose shoulders are closer than the epsilon, without
\* being coincident, and a frame turned by 45 degrees was analyzed
C23_Witness ==
    /\ Analyzed
    /\ result.max_torso_rotation = 45
    /\ \E i \in 1..Len(pose_results) :
           /\ "keypoints" \in DOMAIN pose_results[i]
           /\ \A k \in DOMAIN pose_results[i].keypoints : pose_results[i].keypoints[k] # None
           /\ pose_results[i].keypoints.right_shoulder # pose_results[i].keypoints.left_shoulder
           /\ Degenerate(pose_results[i].keypoints)
           /\ result.metrics_per_frame[i].torso_rotation = None

----------------------------------------------------------------------------
(* _find_phase_boundaries on a scaled series *)

\* the series x with every sample multiplied by k
Scaled(x, k) == [i \in 1..Len(x) |-> k * x[i]]

\* C24: for the smoothed gyro magnitude of an analyzed packet and a scale
\* factor k > 0, _find_phase_boundaries detects an event on the scaled series
\* exactly when it does on the series itself, with the same accel_start, peak
\* and decel_end indices.
C24_ScaleInvariantDetection ==
    (Analyzed_imu /\ "gyro_mag" \in DOMAIN imu_result) =>
        \A k \in {2, 3} :
            LET plain == find_phase_boundaries(imu_result.t_ms, imu_result.gyro_mag)
                scaled == find_phase_boundaries(imu_result.t_ms,
                                                Scaled(imu_result.gyro_mag, k))
            IN  /\ plain = None <=> scaled = None
                /\ plain # None =>
                       /\ scaled[1].accel_start_idx = plain[1].accel_start_idx
                       /\ scaled[1].peak_idx = plain[1].peak_idx
                       /\ scaled[1].decel_end_idx = plain[1].decel_end_idx

----------------------------------------------------------------------------
(* /api/analyze-swing: the two tasks of a request *)

----------------------------------------------------------------------------
(* server.py: event packets handled by the threads of ThreadedHTTPServer.
   Each do_POST runs on a thread of its own; event_count is a module global
   the threads share without a lock. *)

\* most event packets in flight or handled
MaxEvents == 3

\* a thread's do_POST has found pkt_type == "event"
ReceiveEvent ==
    /\ Len(handlers) < MaxEvents
    /\ handlers' = Append(handlers,
           [pc |-> "load", loaded |-> None, printed |-> None, plotted |-> None])
    /\ UNCHANGED <<files, upload, event_count>>
    /\ UNCHANGED <<pose_vars, imu_vars, aux_vars>>

\* event_count += 1, first half: the global is read
LoadCount(h) ==
    /\ handlers[h].pc = "load"
    /\ handlers' = [handlers EXCEPT ![h].pc = "store", ![h].loaded = Some(event_count)]
    /\ UNCHANGED <<files, upload, event_count>>
    /\ UNCHANGED <<pose_vars, imu_vars, aux_vars>>

\* event_count += 1, second half: the sum is stored
StoreCount(h) ==
    /\ handlers[h].pc = "store"
    /\ event_count' = handlers[h].loaded[1] + 1
    /\ handlers' = [handlers EXCEPT ![h].pc = "print"]
    /\ UNCHANGED <<files, upload>>
    /\ UNCHANGED <<pose_vars, imu_vars, aux_vars>>

\* print(f"  SWING EVENT #{event_count} | ...")
PrintEvent(h) ==
    /\ handlers[h].pc = "print"
    /\ handlers' = [handlers EXCEPT ![h].pc = "plot", ![h].printed = Some(event_count)]
    /\ UNCHANGED <<files, upload, event_count>>
    /\ UNCHANGED <<pose_vars, imu_vars, aux_vars>>

\* analyze_swing(samples), then plot_swing(result, event_number=event_count)
\* writes swing_NNNN.png
PlotEvent(h) ==
    /\ handlers[h].pc = "plot"
    /\ handlers' = [handlers EXCEPT ![h].pc = "done", ![h].plotted = Some(event_count)]
    /\ UNCHANGED <<files, upload, event_count>>
    /\ UNCHANGED <<pose_vars, imu_vars, aux_vars>>

\* the server is up, no packet has arrived
InitServer ==
    /\ PoseIdle
    /\ ImuIdle
    /\ AuxIdle
    /\ IoIdle

NextServer ==
    \/ ReceiveEvent
    \/ \E h \in 1..Len(handlers) : LoadCount(h)
    \/ \E h \in 1..Len(handlers) : StoreCount(h)
    \/ \E h \in 1..Len(handlers) : PrintEvent(h)
    \/ \E h \in 1..Len(handlers) : PlotEvent(h)

SpecServer == InitServer /\ [][NextServer]_vars

\* C27: each event gets its own number: the number printed for an event is the
\* number its plot is saved under, no two events share a plot number, and once
\* k events are handled event_count is k.
C27_EventNumbersUnique ==
    /\ \A h \in 1..Len(handlers) :
           handlers[h].pc = "done" => handlers[h].printed = handlers[h].plotted
    /\ \A g, h \in 1..Len(handlers) :
           (g # h /\ handlers[g].pc = "done" /\ handlers[h].pc = "done") =>
               handlers[g].plotted # handlers[h].plotted
    /\ (\A h \in 1..Len(handlers) : handlers[h].pc = "done") =>
           event_count = Len(handlers)

----------------------------------------------------------------------------
(* app.py: the temporary files of /api/analyze-video, /api/analyze-swing and
   /api/annotate-video.  The requests are followed one after the other; the
   files of request n are <<n, "input">>, the copy of the upload, and
   <<n, "output">>, the annotated video. *)

\* most upload requests followed
MaxUploads == 2

Endpoints == {"analyze-video", "analyze-swing", "annotate-video"}

\* a request arrives at one of the three endpoints
ReceiveUpload ==
    /\ upload.pc \in {"idle", "closed"}
    /\ (IF upload.pc = "idle" THEN 0 ELSE upload.n) < MaxUploads
    /\ \E endpoint \in Endpoints :
           upload' = [pc       |-> "entered",
                      n        |-> (IF upload.pc = "idle" THEN 0 ELSE upload.n) + 1,
                      endpoint |-> endpoint,
                      created  |-> {},
                      status   |-> 0]
    /\ UNCHANGED <<files, event_count, handlers>>
    /\ UNCHANGED <<pose_vars, imu_vars, aux_vars>>

\* analyze_video_endpoint and annotate_video without a pose backend:
\* HTTPException(503) before anything else
Unavailable ==
    /\ upload.pc = "entered"
    /\ upload.endpoint \in {"analyze-video", "annotate-video"}
    /\ ~backend_set(pose_backend)
    /\ upload' = [upload EXCEPT !.pc = "closed", !.status = 503]
    /\ UNCHANGED <<files, event_count, handlers>>
    /\ UNCHANGED <<pose_vars, imu_vars, aux_vars>>

\* tempfile.NamedTemporaryFile(delete=False, suffix=suffix) creates the file
CreateTemp ==
    /\ upload.pc = "entered"
    /\ upload.endpoint = "analyze-swing" \/ backend_set(pose_backend)
    /\ files' = files \cup {<<upload.n, "input">>}
    /\ upload' = [upload EXCEPT !.pc = "copying",
                                !.created = @ \cup {<<upload.n, "input">>}]
    /\ UNCHANGED <<event_count, handlers>>
    /\ UNCHANGED <<pose_vars, imu_vars, aux_vars>>

\* the body of the with statement: await file.read() and tmp.write(content)
\* go through, or one of them raises (the disk is full) and the exception
\* leaves the handler, which has not entered its try statement yet
CopyUpload ==
    /\ upload.pc = "copying"
    /\ \/ upload' = [upload EXCEPT !.pc = "try"]
       \/ upload' = [upload EXCEPT !.pc = "closed", !.status = 500]
    /\ UNCHANGED <<files, event_count, handlers>>
    /\ UNCHANGED <<pose_vars, imu_vars, aux_vars>>

\* the try body of analyze_video_endpoint and of analyze_swing returns its
\* response, or an exception leaves it
TryBody ==
    /\ upload.pc = "try"
    /\ upload.endpoint \in {"analyze-video", "analyze-swing"}
    /\ \E status \in {200, 400, 500} :
           upload' = [upload EXCEPT !.pc = "finally", !.status = status]
    /\ UNCHANGED <<files, event_count, handlers>>
    /\ UNCHANGED <<pose_vars, imu_vars, aux_vars>>

\* annotate_video: cv2.VideoCapture(input_path) opens, or HTTPException(400)
OpenCapture ==
    /\ upload.pc = "try"
    /\ upload.endpoint = "annotate-video"
    /\ \/ upload' = [upload EXCEPT !.pc = "writer"]
       \/ upload' = [upload EXCEPT !.pc = "finally", !.status = 400]
    /\ UNCHANGED <<files, event_count, handlers>>
    /\ UNCHANGED <<pose_vars, imu_vars, aux_vars>>

\* annotate_video: cv2.VideoWriter(output_path, ...) creates the output file,
\* or does not when the codec cannot be opened
CreateWriter ==
    /\ upload.pc = "writer"
    /\ \/ /\ files' = files \cup {<<upload.n, "output">>}
          /\ upload' = [upload EXCEPT !.pc = "frames",
                                      !.created = @ \cup {<<upload.n, "output">>}]
       \/ /\ upload' = [upload EXCEPT !.pc = "frames"]
          /\ UNCHANGED files
    /\ UNCHANGED <<event_count, handlers>>
    /\ UNCHANGED <<pose_vars, imu_vars, aux_vars>>

\* annotate_video: the frame loop ends and FileResponse is returned, or a call
\* in the loop raises
WriteFrames ==
    /\ upload.pc = "frames"
    /\ \E status \in {200, 500} :
           upload' = [upload EXCEPT !.pc = "finally", !.status = status]
    /\ UNCHANGED <<files, event_count, handlers>>
    /\ UNCHANGED <<pose_vars, imu_vars, aux_vars>>

\* finally: os.unlink(tmp_path) / os.unlink(input_path); the FileResponse of
\* annotate_video is served after it
UnlinkInput ==
    /\ upload.pc = "finally"
    /\ files' = files \ {<<upload.n, "input">>}
    /\ upload' = [upload EXCEPT
           !.pc = IF upload.endpoint = "annotate-video" /\ upload.status = 200
                  THEN "serving" ELSE "closed"]
    /\ UNCHANGED <<event_count, handlers>>
    /\ UNCHANGED <<pose_vars, imu_vars, aux_vars>>

\* FileResponse(output_path, media_type, filename) sends the file, or fails
\* when it does not exist; it was given no background task, so nothing runs
\* after the response
ServeFile ==
    /\ upload.pc = "serving"
    /\ upload' = [upload EXCEPT
           !.pc = "closed",
           !.status = IF <<upload.n, "output">> \in files THEN 200 ELSE 500]
    /\ UNCHANGED <<files, event_count, handlers>>
    /\ UNCHANGED <<pose_vars, imu_vars, aux_vars>>

\* startup is over, with or without a pose backend
InitFiles ==
    /\ PoseIdle
    /\ ImuIdle
    /\ sm = [pc |-> "idle"]
    /\ analyzer = TheAnalyzer
    /\ calls = <<>>
    /\ env = EnvUnset
    /\ pose_backend \in {"available", "none"}
    /\ gemini_client = FALSE
    /\ req = [pc |-> "idle", tts_pc |-> "none"]
    /\ health = [kind |-> "none"]
    /\ IoIdle

NextFiles ==
    \/ ReceiveUpload
    \/ Unavailable
    \/ CreateTemp
    \/ CopyUpload
    \/ TryBody
    \/ OpenCapture
    \/ CreateWriter
    \/ WriteFrames
    \/ UnlinkInput
    \/ ServeFile

SpecFiles == InitFiles /\ [][NextFiles]_vars

\* C29: once a request to /api/analyze-video or /api/analyze-swing is over,
\* however it ended, the temporary copy of its upload is gone; and
\* /api/analyze-video answering 503 has created no file.
C29_UploadCopyDeleted ==
    (upload.pc = "closed" /\ upload.endpoint \in {"analyze-video", "analyze-swing"}) =>
        /\ <<upload.n, "input">> \notin files
        /\ (upload.endpoint = "analyze-video" /\ upload.status = 503) =>
               upload.created = {}

\* C26: once a request to /api/annotate-video is over and its response has
\* been served, on the success path and on every error path, the annotated
\* output file it created is gone.
C26_AnnotatedOutputDeleted ==
    (upload.pc = "closed" /\ upload.endpoint = "annotate-video") =>
        <<upload.n, "output">> \notin files

====
